---- MODULE Spec2Model ----
(***************************************************************************)
(* A model of the BitTorrent client's swarm scheduler                      *)
(* (pkg/torrent/torrent.go: NewTorrent, connectPeers, DownloadFile and its *)
(* worker goroutines) and of the per-message wait of a peer connection     *)
(* (pkg/peer: waitForPeerMsg, readPeerMsg).                                *)
(*                                                                         *)
(* Goroutines are processes; every access to memory that another goroutine *)
(* can touch is a step of its own, so the unsynchronised accesses of the   *)
(* workers to DownloadFile's named result err interleave as the Go memory  *)
(* model allows.                                                           *)
(***************************************************************************)
EXTENDS Integers, Sequences, FiniteSets, TLC

(* ---------------------------------------------------------------- bounds *)
MaxPieces == 2
MaxPeers == 2

\* How many frames the peer sends while one waitForPeerMsg call is followed.
MaxFrames == 3

\* The piece lengths of a DownloadPiece call: every length up to MaxSmallLen
\* and, for up to MaxBlocks whole blocks, the lengths at and next to the
\* multiples of BlockSize; the file has up to MaxWhole pieces before its
\* last one.
MaxBlocks == 11
MaxWhole == 2
MaxSmallLen == 3
\* The keys a dictionary to encode may have.
NKeys == 3
\* The size of a bufio.Reader's buffer (4096 in the library, scaled down),
\* the longest byte string declared, the longest integer input.
BufSize == 4
MaxStr == 6
MaxIntLen == 5
\* The parts of a magnet link.
MaxParts == 3
\* The peers of a compact peer list.
MaxPeerList == 2

(* ----------------------------------------------------- program constants *)
PieceDownloadRetries == 5
MsgChoke == 0
MsgUnchoke == 1
MsgBitfield == 5
MsgPiece == 7
MsgExtensionHandshake == 20
BlockSize == 16384
PipelineDepth == 5
HashLen == 20
handshakeMsgSize == 68

(* ------------------------------------------------------------ data model *)
\* The bytes a DownloadPiece call can return. NilData is the nil slice of
\* the error returns; WrongData stands for bytes that belong to no piece;
\* k + 1 is the content of piece k.
NilData == -1
WrongData == 0
Content(k) == k + 1

\* SHA-1, collision free on the modelled data.
Sha1(d) == <<"sha1", d>>

\* mf.Info.PieceHashes of an n-piece torrent.
PieceHashes(n) == [k \in 0 .. n - 1 |-> Sha1(Content(k))]

\* verifyPiece: nil iff the hash of the bytes is the expected hash.
verifyPiece(got, expected) == IF Sha1(got) # expected THEN "derr" ELSE "nil"

\* How a peer behaves:
\*   nodial  the TCP dial fails
\*   nohs    the dial succeeds, the handshake fails
\*   good    answers interested with unchoke and every request with the
\*           right block
\*   drop    good until its connection drops in the middle of a piece;
\*           every later I/O on the connection fails
\*   bad     anything: wrong blocks, I/O errors, silence
\* A further kind appears in fixed scenarios only:
\*   corrupt answers every request, always with the same wrong block
PeerKinds == {"nodial", "nohs", "good", "drop", "bad"}

NoPiece == -1

\* The output file: not created, or created with the bytes written so far.
NoFile == [created |-> FALSE, bytes |-> <<>>]
File(b) == [created |-> TRUE, bytes |-> b]

VARIABLES
  peers,        \* peersInfo: the kinds of the discovered peers, in order
  npieces,      \* len(mf.Info.PieceHashes)
  mainpc,       \* where the caller of NewTorrent / DownloadFile is
  peerConns,    \* t.peerConns: indices into peers
  workQueue,    \* t.workQueue: piece indices of the queued PieceWork items
  wqClosed,     \* close(t.workQueue) has run
  retries,      \* pieceWork.retries, by piece index
  pieceData,    \* piece.data, by piece index
  pieces,       \* pieces[k] # nil, by piece index
  wgCount,      \* the counter of wg
  waitCh,       \* "open" or "closed"
  errCh,        \* the buffered errors
  errClosed,    \* close(errCh) has run
  err,          \* DownloadFile's named result, shared with the workers
  wpc,          \* where each worker goroutine is
  holding,      \* the piece index of the PieceWork a worker has dequeued
  lastRes,      \* what the DownloadPiece call the worker is back from returned
  dropped,      \* the connection of the peer has dropped
  result,       \* what DownloadFile returned ("none" before it returns)
  outFile,      \* the output file: NoFile or File(the pieces written)
  fatalPosted,  \* history: some worker has sent on errCh
  attempts,     \* history: DownloadPiece calls started, by piece index
  panicked,     \* a goroutine has panicked: the process is gone
  (* one waitForPeerMsg call on one connection *)
  expectedID,   \* the id the call waits for
  wire,         \* the frames the peer has sent that are not read yet
  nsent,        \* history: how many frames the peer has sent
  connErr,      \* the connection has failed: a read with nothing left errors
  ctxDone,      \* ctx.Done() is closed (the deadline has passed, or cancel)
  readerpc,     \* where the goroutine of the call is
  msgChan,      \* the call's msgChan
  errChan,      \* the call's errChan
  chansClosed,  \* the deferred closes of msgChan and errChan have run
  callerpc,     \* where the caller is
  ret,          \* what the call returned
  \* one DownloadPiece(mf, pieceIdx) call
  mfLength,      \* mf.Info.Length
  mfPieceLength, \* mf.Info.PieceLength
  dlIdx,         \* pieceIdx
  dlpc,          \* where the call is
  dlLen,         \* pieceLength, the size of the piece
  dlI,           \* i, the first block of the current wave
  dlJ,           \* j, the position in the wave
  dlSent,        \* the request messages sent so far, in order
  dlErr,         \* the error the call returns
  dlBuf,         \* pieceData, one cell per block: what was copied there
  dlPending,     \* the blocks requested and not yet answered
  \* one call of a function of the codec, metainfo or connection layer
  fn,            \* the function called
  arg,           \* its argument
  out,           \* what it returned, once it has
  \* a second run of the download command
  firstRun,      \* what the first run returned and wrote
  connLog,       \* history, by worker: what went over its connection
  stores         \* history, by piece index: how often the slot was written

schedVars == <<peers, npieces, mainpc, peerConns, workQueue, wqClosed, retries,
               pieceData, pieces, wgCount, waitCh, errCh, errClosed, err, wpc,
               holding, lastRes, dropped, result, outFile, fatalPosted,
               attempts, panicked>>

waitVars == <<expectedID, wire, nsent, connErr, ctxDone, readerpc, msgChan,
              errChan, chansClosed, callerpc, ret>>

dlVars == <<mfLength, mfPieceLength, dlIdx, dlpc, dlLen, dlI, dlJ, dlSent, dlErr,
            dlBuf, dlPending>>

callVars == <<fn, arg, out>>

runVars == <<firstRun, connLog, stores>>

restVars == <<dlVars, callVars, runVars>>

vars == <<schedVars, waitVars, restVars>>

Workers == DOMAIN wpc
PieceIdx == 0 .. npieces - 1

\* The goroutines run until one of them panics or the command that called
\* DownloadFile returns, which ends the process (main returns or calls
\* os.Exit).
running == ~panicked /\ mainpc # "returned"

RECURSIVE SeqsUpTo(_, _)
SeqsUpTo(S, n) ==
  IF n = 0 THEN {<<>>}
  ELSE LET shorter == SeqsUpTo(S, n - 1)
       IN shorter \cup {Append(s, x) : s \in {t \in shorter : Len(t) = n - 1}, x \in S}

(* ------------------------------------------------------------------ Init *)
\* The state as NewTorrent starts connecting: DiscoverPeers has returned the
\* peer list, nothing is connected, nothing is queued.
SchedStart(ps, n) ==
  /\ peers = ps
  /\ npieces = n
  /\ mainpc = "connect"
  /\ peerConns = <<>>
  /\ workQueue = <<>>
  /\ wqClosed = FALSE
  /\ retries = [k \in 0 .. n - 1 |-> 0]
  /\ pieceData = [k \in 0 .. n - 1 |-> NilData]
  /\ pieces = [k \in 0 .. n - 1 |-> FALSE]
  /\ wgCount = 0
  /\ waitCh = "open"
  /\ errCh = <<>>
  /\ errClosed = FALSE
  /\ err = "nil"
  /\ wpc = <<>>
  /\ holding = <<>>
  /\ lastRes = <<>>
  /\ dropped = [p \in 1 .. Len(ps) |-> FALSE]
  /\ result = "none"
  /\ outFile = NoFile
  /\ fatalPosted = FALSE
  /\ attempts = [k \in 0 .. n - 1 |-> 0]
  /\ panicked = FALSE

\* The nil *PeerMsg of an error return, and the state before the return.
NilMsg == [id |-> -1, length |-> -1]
NoReturn == [msg |-> NilMsg, e |-> "none"]

\* No waitForPeerMsg call is modelled step by step.
WaitIdle ==
  /\ expectedID = 0
  /\ wire = <<>>
  /\ nsent = 0
  /\ connErr = FALSE
  /\ ctxDone = FALSE
  /\ readerpc = "none"
  /\ msgChan = <<>>
  /\ errChan = <<>>
  /\ chansClosed = FALSE
  /\ callerpc = "none"
  /\ ret = NoReturn

\* No DownloadPiece call is modelled step by step.
DlIdle ==
  /\ mfLength = 0
  /\ mfPieceLength = 0
  /\ dlIdx = 0
  /\ dlpc = "none"
  /\ dlLen = 0
  /\ dlI = 0
  /\ dlJ = 0
  /\ dlSent = <<>>
  /\ dlErr = "none"
  /\ dlBuf = <<>>
  /\ dlPending = {}

\* No single function call is modelled.
CallIdle ==
  /\ fn = "none"
  /\ arg = <<>>
  /\ out = [done |-> FALSE]

\* The first run of the command.
FirstRun ==
  /\ firstRun = [done |-> FALSE, result |-> "none", outFile |-> NoFile]
  /\ connLog = <<>>
  /\ stores = <<>>

\* The record of a connection its worker has not used yet: PreDownload
\* calls made, interested sent, unchoke received.
NoLog == [pre |-> 0, interested |-> FALSE, unchoke |-> FALSE]

RestIdle == DlIdle /\ CallIdle /\ FirstRun

\* Any peer list and any piece count within the bounds.
Init ==
  /\ \E ps \in SeqsUpTo(PeerKinds, MaxPeers), n \in 1 .. MaxPieces : SchedStart(ps, n)
  /\ WaitIdle
  /\ RestIdle

(* ------------------------------------------------- NewTorrent, connecting *)
\* peer.NewPeerConn: dial, then handshake.
NewPeerConn(kind) ==
  CASE kind = "nodial" -> "dialerr"
    [] kind = "nohs" -> "hserr"
    [] OTHER -> "ok"

\* connectPeers with the error of NewPeerConn dropped: the peer is added
\* whether or not it connected.
connectPeers_Ignore ==
  /\ mainpc = "connect"
  /\ ~panicked
  /\ Len(peerConns) < Len(peers)
  /\ peerConns' = Append(peerConns, Len(peerConns) + 1)
  /\ UNCHANGED <<peers, npieces, mainpc, workQueue, wqClosed, retries, pieceData,
                 pieces, wgCount, waitCh, errCh, errClosed, err, wpc, holding,
                 lastRes, dropped, result, outFile, fatalPosted, attempts, panicked>>
  /\ UNCHANGED <<waitVars, restVars>>

\* One iteration of the loop of connectPeers; the first peer that does not
\* connect makes connectPeers, and with it NewTorrent, return an error.
connectPeers ==
  /\ mainpc = "connect"
  /\ ~panicked
  /\ Len(peerConns) < Len(peers)
  /\ LET p == Len(peerConns) + 1
     IN IF NewPeerConn(peers[p]) # "ok"
        THEN /\ mainpc' = "newtorrent_failed"
             /\ UNCHANGED peerConns
        ELSE /\ peerConns' = Append(peerConns, p)
             /\ UNCHANGED mainpc
  /\ UNCHANGED <<peers, npieces, workQueue, wqClosed, retries, pieceData, pieces,
                 wgCount, waitCh, errCh, errClosed, err, wpc, holding, lastRes,
                 dropped, result, outFile, fatalPosted, attempts, panicked>>
  /\ UNCHANGED <<waitVars, restVars>>

\* connectPeers has gone through the whole list: NewTorrent returns t.
NewTorrent ==
  /\ mainpc = "connect"
  /\ ~panicked
  /\ Len(peerConns) = Len(peers)
  /\ mainpc' = "created"
  /\ UNCHANGED <<peers, npieces, peerConns, workQueue, wqClosed, retries, pieceData,
                 pieces, wgCount, waitCh, errCh, errClosed, err, wpc, holding,
                 lastRes, dropped, result, outFile, fatalPosted, attempts, panicked>>
  /\ UNCHANGED <<waitVars, restVars>>

(* ----------------------------------------------------------- DownloadFile *)
\* DownloadFile up to its select loop: wg.Add, one PieceWork per piece in
\* index order, the channels, one worker per connection, the goroutine that
\* waits for wg.
DownloadFile ==
  /\ mainpc = "created"
  /\ ~panicked
  /\ wgCount' = npieces
  /\ workQueue' = [i \in 1 .. npieces |-> i - 1]
  /\ wpc' = [w \in 1 .. Len(peerConns) |-> "start"]
  /\ holding' = [w \in 1 .. Len(peerConns) |-> NoPiece]
  /\ lastRes' = [w \in 1 .. Len(peerConns) |-> "none"]
  /\ connLog' = [w \in 1 .. Len(peerConns) |-> NoLog]
  /\ stores' = [k \in PieceIdx |-> 0]
  /\ mainpc' = "select"
  /\ UNCHANGED <<peers, npieces, peerConns, wqClosed, retries, pieceData, pieces,
                 waitCh, errCh, errClosed, err, dropped, result, outFile,
                 fatalPosted, attempts, panicked>>
  /\ UNCHANGED <<waitVars, dlVars, callVars, firstRun>>

\* What PreDownload can return on a connection to a peer of this kind:
\* "hang" is a waitForPeerMsg call that never returns (the peer is silent).
PreDownload(kind) ==
  IF kind = "bad" THEN {"ok", "fail", "hang"} ELSE {"ok"}

\* What a PreDownload call with this outcome has put on the connection:
\* it returns nil after the unchoke, fails on the send of interested or in
\* waitForPeerMsg(MsgUnchoke), and hangs in waitForPeerMsg.
PreDownloadLog(o, log) ==
  CASE o = "ok" ->
         {[log EXCEPT !.pre = @ + 1, !.interested = TRUE, !.unchoke = TRUE]}
    [] o = "fail" ->
         {[log EXCEPT !.pre = @ + 1, !.interested = sent] : sent \in BOOLEAN}
    [] OTHER ->
         {[log EXCEPT !.pre = @ + 1, !.interested = TRUE]}

\* A worker that goes on to its loop whatever PreDownload returned.
workerPreDownload_IgnoreErr(w) ==
  /\ wpc[w] = "start"
  /\ running
  /\ \E o \in PreDownload(peers[peerConns[w]]) :
       /\ wpc' = [wpc EXCEPT ![w] = CASE o = "hang" -> "hung"
                                      [] OTHER -> "loop"]
       /\ \E l \in PreDownloadLog(o, connLog[w]) :
            connLog' = [connLog EXCEPT ![w] = l]
  /\ UNCHANGED <<peers, npieces, mainpc, peerConns, workQueue, wqClosed, retries,
                 pieceData, pieces, wgCount, waitCh, errCh, errClosed, err, holding,
                 lastRes, dropped, result, outFile, fatalPosted, attempts, panicked>>
  /\ UNCHANGED <<waitVars, dlVars, callVars, firstRun, stores>>

\* The worker's first step: pc.PreDownload(), and on error the way to the
\* send on errCh.
workerPreDownload(w) ==
  /\ wpc[w] = "start"
  /\ running
  /\ \E o \in PreDownload(peers[peerConns[w]]) :
       /\ wpc' = [wpc EXCEPT ![w] = CASE o = "ok" -> "loop"
                                      [] o = "fail" -> "post_pre"
                                      [] OTHER -> "hung"]
       /\ \E l \in PreDownloadLog(o, connLog[w]) :
            connLog' = [connLog EXCEPT ![w] = l]
  /\ UNCHANGED <<peers, npieces, mainpc, peerConns, workQueue, wqClosed, retries,
                 pieceData, pieces, wgCount, waitCh, errCh, errClosed, err, holding,
                 lastRes, dropped, result, outFile, fatalPosted, attempts, panicked>>
  /\ UNCHANGED <<waitVars, dlVars, callVars, firstRun, stores>>

\* A receive that leaves the PieceWork in the queue.
workerDequeue_Peek(w) ==
  /\ wpc[w] = "loop"
  /\ running
  /\ IF workQueue # <<>>
     THEN /\ holding' = [holding EXCEPT ![w] = Head(workQueue)]
          /\ attempts' = [attempts EXCEPT ![Head(workQueue)] = @ + 1]
          /\ wpc' = [wpc EXCEPT ![w] = "download"]
          /\ UNCHANGED workQueue
     ELSE /\ wqClosed
          /\ wpc' = [wpc EXCEPT ![w] = "done"]
          /\ UNCHANGED <<holding, workQueue, attempts>>
  /\ UNCHANGED <<peers, npieces, mainpc, peerConns, wqClosed, retries, pieceData,
                 pieces, wgCount, waitCh, errCh, errClosed, err, lastRes, dropped,
                 result, outFile, fatalPosted, panicked>>
  /\ UNCHANGED <<waitVars, restVars>>

\* for pieceWork := range t.workQueue: take the head, or leave the loop when
\* the queue is closed and drained; block otherwise.
workerDequeue(w) ==
  /\ wpc[w] = "loop"
  /\ running
  /\ IF workQueue # <<>>
     THEN /\ holding' = [holding EXCEPT ![w] = Head(workQueue)]
          /\ workQueue' = Tail(workQueue)
          /\ attempts' = [attempts EXCEPT ![Head(workQueue)] = @ + 1]
          /\ wpc' = [wpc EXCEPT ![w] = "download"]
     ELSE /\ wqClosed
          /\ wpc' = [wpc EXCEPT ![w] = "done"]
          /\ UNCHANGED <<holding, workQueue, attempts>>
  /\ UNCHANGED <<peers, npieces, mainpc, peerConns, wqClosed, retries, pieceData,
                 pieces, wgCount, waitCh, errCh, errClosed, err, lastRes, dropped,
                 result, outFile, fatalPosted, panicked>>
  /\ UNCHANGED <<waitVars, restVars>>

\* What DownloadPiece(mf, k) can return on a connection to a peer of this
\* kind: the bytes with verifyPiece's verdict on them, or nil with an I/O
\* error; drops says that the connection drops during the call.
DownloadPiece(kind, isDropped, k, n) ==
  LET verified(d) == [data |-> d, e |-> verifyPiece(d, PieceHashes(n)[k]),
                      drops |-> FALSE, hang |-> FALSE]
      ioerr(dr) == [data |-> NilData, e |-> "derr", drops |-> dr, hang |-> FALSE]
      silent == [data |-> NilData, e |-> "derr", drops |-> FALSE, hang |-> TRUE]
  IN CASE kind = "good" -> {verified(Content(k))}
       [] kind = "drop" -> IF isDropped THEN {ioerr(FALSE)}
                           ELSE {verified(Content(k)), ioerr(TRUE)}
       [] kind = "corrupt" -> {verified(WrongData)}
       [] OTHER -> {verified(Content(k)), verified(WrongData), ioerr(FALSE), silent}

\* Line 103: piece.data, err = pc.DownloadPiece(t.mf, piece.idx). The
\* assignment writes DownloadFile's err, which every worker shares.
workerDownloadPiece(w) ==
  /\ wpc[w] = "download"
  /\ running
  /\ LET p == peerConns[w]
         k == holding[w]
     IN \E o \in DownloadPiece(peers[p], dropped[p], k, npieces) :
          IF o.hang
          THEN /\ wpc' = [wpc EXCEPT ![w] = "hung"]
               /\ UNCHANGED <<pieceData, err, lastRes, dropped>>
          ELSE /\ pieceData' = [pieceData EXCEPT ![k] = o.data]
               /\ err' = o.e
               /\ lastRes' = [lastRes EXCEPT ![w] = o.e]
               /\ dropped' = [dropped EXCEPT ![p] = @ \/ o.drops]
               /\ wpc' = [wpc EXCEPT ![w] = "check"]
  /\ UNCHANGED <<peers, npieces, mainpc, peerConns, workQueue, wqClosed, retries,
                 pieces, wgCount, waitCh, errCh, errClosed, holding, result, outFile,
                 fatalPosted, attempts, panicked>>
  /\ UNCHANGED <<waitVars, restVars>>

\* Lines 107-112: the retry branch. A send on a closed channel panics; a send
\* on a full one blocks.
\* The retry branch with <= for <: one more re-enqueue.
workerRetry_LE(w) ==
  LET k == holding[w]
  IN IF retries[k] <= PieceDownloadRetries
     THEN /\ retries' = [retries EXCEPT ![k] = @ + 1]
          /\ IF wqClosed
             THEN /\ panicked' = TRUE
                  /\ UNCHANGED <<workQueue, wpc, holding>>
             ELSE IF Len(workQueue) < npieces
             THEN /\ workQueue' = Append(workQueue, k)
                  /\ wpc' = [wpc EXCEPT ![w] = "loop"]
                  /\ holding' = [holding EXCEPT ![w] = NoPiece]
                  /\ UNCHANGED panicked
             ELSE /\ wpc' = [wpc EXCEPT ![w] = "blocked_send"]
                  /\ UNCHANGED <<workQueue, holding, panicked>>
     ELSE /\ wpc' = [wpc EXCEPT ![w] = "post_dl"]
          /\ UNCHANGED <<retries, workQueue, holding, panicked>>

\* A retry that puts the PieceWork back and keeps it as well: the worker
\* downloads it again at once.
workerRetry_Keep(w) ==
  LET k == holding[w]
  IN IF retries[k] < PieceDownloadRetries
     THEN /\ retries' = [retries EXCEPT ![k] = @ + 1]
          /\ IF wqClosed
             THEN /\ panicked' = TRUE
                  /\ UNCHANGED <<workQueue, wpc, holding>>
             ELSE IF Len(workQueue) < npieces
             THEN /\ workQueue' = Append(workQueue, k)
                  /\ wpc' = [wpc EXCEPT ![w] = "download"]
                  /\ UNCHANGED <<holding, panicked>>
             ELSE /\ wpc' = [wpc EXCEPT ![w] = "blocked_send"]
                  /\ UNCHANGED <<workQueue, holding, panicked>>
     ELSE /\ wpc' = [wpc EXCEPT ![w] = "post_dl"]
          /\ UNCHANGED <<retries, workQueue, holding, panicked>>

workerRetry(w) ==
  LET k == holding[w]
  IN IF retries[k] < PieceDownloadRetries
     THEN /\ retries' = [retries EXCEPT ![k] = @ + 1]
          /\ IF wqClosed
             THEN /\ panicked' = TRUE
                  /\ UNCHANGED <<workQueue, wpc, holding>>
             ELSE IF Len(workQueue) < npieces
             THEN /\ workQueue' = Append(workQueue, k)
                  /\ wpc' = [wpc EXCEPT ![w] = "loop"]
                  /\ holding' = [holding EXCEPT ![w] = NoPiece]
                  /\ UNCHANGED panicked
             ELSE /\ wpc' = [wpc EXCEPT ![w] = "blocked_send"]
                  /\ UNCHANGED <<workQueue, holding, panicked>>
     ELSE /\ wpc' = [wpc EXCEPT ![w] = "post_dl"]
          /\ UNCHANGED <<retries, workQueue, holding, panicked>>

\* The store without wg.Done().
workerStore_NoDone(w) ==
  LET k == holding[w]
  IN /\ pieces' = [pieces EXCEPT ![k] = TRUE]
     /\ wpc' = [wpc EXCEPT ![w] = "loop"]
     /\ holding' = [holding EXCEPT ![w] = NoPiece]
     /\ UNCHANGED <<wgCount, panicked>>

\* wg.Done() without the store of the slot.
workerStore_DoneOnly(w) ==
  /\ pieces' = pieces
  /\ IF wgCount = 0
     THEN /\ panicked' = TRUE
          /\ UNCHANGED <<wgCount, wpc, holding>>
     ELSE /\ wgCount' = wgCount - 1
          /\ wpc' = [wpc EXCEPT ![w] = "loop"]
          /\ holding' = [holding EXCEPT ![w] = NoPiece]
          /\ UNCHANGED panicked

\* Lines 118-120: pieces[piece.idx] = piece; wg.Done(). A Done below zero
\* panics.
workerStore(w) ==
  LET k == holding[w]
  IN /\ pieces' = [pieces EXCEPT ![k] = TRUE]
     /\ IF wgCount = 0
        THEN /\ panicked' = TRUE
             /\ UNCHANGED <<wgCount, wpc, holding>>
        ELSE /\ wgCount' = wgCount - 1
             /\ wpc' = [wpc EXCEPT ![w] = "loop"]
             /\ holding' = [holding EXCEPT ![w] = NoPiece]
             /\ UNCHANGED panicked

\* Line 104: if err != nil reads the shared err, whoever wrote it last.
workerCheck(w) ==
  /\ wpc[w] = "check"
  /\ running
  /\ IF err # "nil"
     THEN /\ workerRetry(w)
          /\ UNCHANGED <<pieces, wgCount, stores>>
     ELSE /\ workerStore(w)
          /\ stores' = [stores EXCEPT ![holding[w]] = @ + 1]
          /\ UNCHANGED <<retries, workQueue>>
  /\ lastRes' = [lastRes EXCEPT ![w] = "none"]
  /\ UNCHANGED <<peers, npieces, mainpc, peerConns, wqClosed, pieceData, waitCh,
                 errCh, errClosed, err, dropped, result, outFile, fatalPosted,
                 attempts>>
  /\ UNCHANGED <<waitVars, dlVars, callVars, firstRun, connLog>>

\* The error a worker posts from where it is.
FatalError(pc) == IF pc = "post_pre" THEN "fatal_pre" ELSE "fatal_dl"

\* errCh <- fmt.Errorf(...); return. The send panics on a closed channel and
\* blocks while the buffer (len(pieceHashes)) is full.
workerPostErr(w) ==
  /\ wpc[w] \in {"post_pre", "post_dl"}
  /\ running
  /\ IF errClosed
     THEN /\ panicked' = TRUE
          /\ UNCHANGED <<errCh, wpc, fatalPosted>>
     ELSE /\ Len(errCh) < npieces
          /\ errCh' = Append(errCh, FatalError(wpc[w]))
          /\ wpc' = [wpc EXCEPT ![w] = "done"]
          /\ fatalPosted' = TRUE
          /\ UNCHANGED panicked
  /\ UNCHANGED <<peers, npieces, mainpc, peerConns, workQueue, wqClosed, retries,
                 pieceData, pieces, wgCount, waitCh, errClosed, err, holding, lastRes,
                 dropped, result, outFile, attempts>>
  /\ UNCHANGED <<waitVars, restVars>>

\* The goroutine closing waitCh without wg.Wait().
waiter_NoWait ==
  /\ mainpc \notin {"connect", "newtorrent_failed", "created"}
  /\ running
  /\ waitCh = "open"
  /\ waitCh' = "closed"
  /\ UNCHANGED <<peers, npieces, mainpc, peerConns, workQueue, wqClosed, retries,
                 pieceData, pieces, wgCount, errCh, errClosed, err, wpc, holding,
                 lastRes, dropped, result, outFile, fatalPosted, attempts, panicked>>
  /\ UNCHANGED <<waitVars, restVars>>

\* go func() { wg.Wait(); close(waitCh) }()
waiter ==
  /\ mainpc \notin {"connect", "newtorrent_failed", "created"}
  /\ running
  /\ waitCh = "open"
  /\ wgCount = 0
  /\ waitCh' = "closed"
  /\ UNCHANGED <<peers, npieces, mainpc, peerConns, workQueue, wqClosed, retries,
                 pieceData, pieces, wgCount, errCh, errClosed, err, wpc, holding,
                 lastRes, dropped, result, outFile, fatalPosted, attempts, panicked>>
  /\ UNCHANGED <<waitVars, restVars>>

\* A select that takes the waitCh case while waitCh is still open.
selectWaitCh_Early ==
  /\ mainpc = "select"
  /\ ~panicked
  /\ mainpc' = "closeWorkQueue"
  /\ UNCHANGED <<peers, npieces, peerConns, workQueue, wqClosed, retries, pieceData,
                 pieces, wgCount, waitCh, errCh, errClosed, err, wpc, holding,
                 lastRes, dropped, result, outFile, fatalPosted, attempts, panicked>>
  /\ UNCHANGED <<waitVars, restVars>>

\* select, case <-waitCh: break L.
selectWaitCh ==
  /\ mainpc = "select"
  /\ ~panicked
  /\ waitCh = "closed"
  /\ mainpc' = "closeWorkQueue"
  /\ UNCHANGED <<peers, npieces, peerConns, workQueue, wqClosed, retries, pieceData,
                 pieces, wgCount, waitCh, errCh, errClosed, err, wpc, holding,
                 lastRes, dropped, result, outFile, fatalPosted, attempts, panicked>>
  /\ UNCHANGED <<waitVars, restVars>>

\* select, case err = <-errCh: return. The receive assigns err; the return
\* reads it in a later step.
selectErrCh ==
  /\ mainpc = "select"
  /\ ~panicked
  /\ errCh # <<>>
  /\ err' = Head(errCh)
  /\ errCh' = Tail(errCh)
  /\ mainpc' = "return"
  /\ UNCHANGED <<peers, npieces, peerConns, workQueue, wqClosed, retries, pieceData,
                 pieces, wgCount, waitCh, errClosed, wpc, holding, lastRes, dropped,
                 result, outFile, fatalPosted, attempts, panicked>>
  /\ UNCHANGED <<waitVars, restVars>>

\* close(t.workQueue)
closeWorkQueue ==
  /\ mainpc = "closeWorkQueue"
  /\ ~panicked
  /\ wqClosed' = TRUE
  /\ mainpc' = "closeErrCh"
  /\ UNCHANGED <<peers, npieces, peerConns, workQueue, retries, pieceData, pieces,
                 wgCount, waitCh, errCh, errClosed, err, wpc, holding, lastRes,
                 dropped, result, outFile, fatalPosted, attempts, panicked>>
  /\ UNCHANGED <<waitVars, restVars>>

\* close(errCh)
closeErrCh ==
  /\ mainpc = "closeErrCh"
  /\ ~panicked
  /\ errClosed' = TRUE
  /\ mainpc' = "write"
  /\ UNCHANGED <<peers, npieces, peerConns, workQueue, wqClosed, retries, pieceData,
                 pieces, wgCount, waitCh, errCh, err, wpc, holding, lastRes, dropped,
                 result, outFile, fatalPosted, attempts, panicked>>
  /\ UNCHANGED <<waitVars, restVars>>

RECURSIVE WrittenUpTo(_, _, _)
\* The bytes of the non-nil slots among the first m, in index order.
WrittenUpTo(slots, data, m) ==
  IF m = 0 THEN <<>>
  ELSE LET before == WrittenUpTo(slots, data, m - 1)
       IN IF slots[m - 1] THEN Append(before, data[m - 1]) ELSE before

\* writePiecesToOut: os.Create, then one Write per non-nil slot in index
\* order. cut = -1: Create fails; cut < n: the Write of slot cut fails;
\* cut = n: every Write succeeds.
writePiecesToOut(slots, data, n, cut) ==
  IF cut = -1 THEN [file |-> NoFile, e |-> "write_err"]
  ELSE IF cut < n THEN [file |-> File(WrittenUpTo(slots, data, cut)), e |-> "write_err"]
  ELSE [file |-> File(WrittenUpTo(slots, data, n)), e |-> "nil"]

\* Lines 152-155: err = writePiecesToOut(outFilename, pieces), the file
\* system failing at cut.
writeOutAt(cut) ==
  /\ mainpc = "write"
  /\ ~panicked
  /\ LET r == writePiecesToOut(pieces, pieceData, npieces, cut)
     IN /\ outFile' = r.file
        /\ err' = r.e
  /\ mainpc' = "return"
  /\ UNCHANGED <<peers, npieces, peerConns, workQueue, wqClosed, retries, pieceData,
                 pieces, wgCount, waitCh, errCh, errClosed, wpc, holding, lastRes,
                 dropped, result, fatalPosted, attempts, panicked>>
  /\ UNCHANGED <<waitVars, restVars>>

\* The write phase, with a file system that may fail at any point.
writeOut == \E cut \in -1 .. npieces : writeOutAt(cut)

\* return: the caller gets what err holds now.
return ==
  /\ mainpc = "return"
  /\ ~panicked
  /\ result' = IF err = "nil" THEN "ok" ELSE err
  /\ mainpc' = "returned"
  /\ UNCHANGED <<peers, npieces, peerConns, workQueue, wqClosed, retries, pieceData,
                 pieces, wgCount, waitCh, errCh, errClosed, err, wpc, holding,
                 lastRes, dropped, outFile, fatalPosted, attempts, panicked>>
  /\ UNCHANGED <<waitVars, restVars>>

(* ------------------------------------------------------- waitForPeerMsg *)
\* The frames a peer can put on the wire: the keep-alive (length 0, no id
\* byte) and frames of length 1 whose only payload byte is the id.
WireFrames ==
  {[len |-> 0, first |-> 0]} \cup
  {[len |-> 1, first |-> i] :
     i \in {MsgChoke, MsgUnchoke, MsgBitfield, MsgPiece, MsgExtensionHandshake}}

\* The ids the callers wait for: MsgUnchoke (PreDownload), MsgPiece
\* (DownloadPiece), MsgBitfield and MsgExtensionHandshake (the extension
\* handshake, RequestMetadata).
ExpectedIDs == {MsgUnchoke, MsgBitfield, MsgPiece, MsgExtensionHandshake}

\* A waitForPeerMsg(expectedID) call has just started its goroutine on a
\* connection with nothing unread.
WaitStart(ids) ==
  /\ expectedID \in ids
  /\ wire = <<>>
  /\ nsent = 0
  /\ connErr = FALSE
  /\ ctxDone = FALSE
  /\ readerpc = "select"
  /\ msgChan = <<>>
  /\ errChan = <<>>
  /\ chansClosed = FALSE
  /\ callerpc = "wait"
  /\ ret = NoReturn

\* No download is modelled: the scheduler's variables stay as they are.
SchedIdle ==
  /\ peers = <<>>
  /\ npieces = 1
  /\ mainpc = "idle"
  /\ peerConns = <<>>
  /\ workQueue = <<>>
  /\ wqClosed = FALSE
  /\ retries = <<>>
  /\ pieceData = <<>>
  /\ pieces = <<>>
  /\ wgCount = 0
  /\ waitCh = "open"
  /\ errCh = <<>>
  /\ errClosed = FALSE
  /\ err = "nil"
  /\ wpc = <<>>
  /\ holding = <<>>
  /\ lastRes = <<>>
  /\ dropped = <<>>
  /\ result = "none"
  /\ outFile = NoFile
  /\ fatalPosted = FALSE
  /\ attempts = <<>>
  /\ panicked = FALSE

\* The peer sends one more frame.
peerSend ==
  /\ nsent < MaxFrames
  /\ ~connErr
  /\ \E f \in WireFrames : wire' = Append(wire, f)
  /\ nsent' = nsent + 1
  /\ UNCHANGED <<expectedID, connErr, ctxDone, readerpc, msgChan, errChan,
                 chansClosed, callerpc, ret>>
  /\ UNCHANGED <<schedVars, restVars>>

\* The connection fails (the peer closes it, the network drops it).
connFail ==
  /\ ~connErr
  /\ connErr' = TRUE
  /\ UNCHANGED <<expectedID, wire, nsent, ctxDone, readerpc, msgChan, errChan,
                 chansClosed, callerpc, ret>>
  /\ UNCHANGED <<schedVars, restVars>>

\* MessageTimeout passes: the context of the call is done.
deadline ==
  /\ callerpc = "wait"
  /\ ~ctxDone
  /\ ctxDone' = TRUE
  /\ UNCHANGED <<expectedID, wire, nsent, connErr, readerpc, msgChan, errChan,
                 chansClosed, callerpc, ret>>
  /\ UNCHANGED <<schedVars, restVars>>

\* The goroutine's select: case <-ctx.Done() sends ctx.Err() and returns;
\* default goes on to readPeerMsg. A send on a closed channel panics.
readerSelect ==
  /\ readerpc = "select"
  /\ ~panicked
  /\ IF ctxDone
     THEN IF chansClosed
          THEN /\ panicked' = TRUE
               /\ UNCHANGED <<errChan, readerpc>>
          ELSE /\ errChan' = Append(errChan, "DeadlineExceeded")
               /\ readerpc' = "done"
               /\ UNCHANGED panicked
     ELSE /\ readerpc' = "read"
          /\ UNCHANGED <<errChan, panicked>>
  /\ UNCHANGED <<expectedID, wire, nsent, connErr, ctxDone, msgChan, chansClosed,
                 callerpc, ret>>
  /\ UNCHANGED <<peers, npieces, mainpc, peerConns, workQueue, wqClosed, retries,
                 pieceData, pieces, wgCount, waitCh, errCh, errClosed, err, wpc,
                 holding, lastRes, dropped, result, outFile, fatalPosted, attempts>>
  /\ UNCHANGED restVars

\* readPeerMsg on a frame: the id is the first payload byte, and the zero
\* MsgID when the frame has no payload.
readPeerMsg(f) ==
  [id |-> IF f.len > 0 THEN f.first ELSE 0, length |-> f.len]

\* The default branch: readPeerMsg blocks until a frame or an error is
\* there; an error goes to errChan, the awaited id goes to msgChan, and
\* every other frame (keep-alive or not) leads back to the select.
readerRead ==
  /\ readerpc = "read"
  /\ ~panicked
  /\ wire # <<>> \/ connErr
  /\ IF wire = <<>>
     THEN /\ errChan' = Append(errChan, "ioerr")
          /\ readerpc' = "done"
          /\ UNCHANGED <<wire, msgChan>>
     ELSE LET msg == readPeerMsg(Head(wire))
          IN /\ wire' = Tail(wire)
             /\ IF msg.id = expectedID
                THEN /\ msgChan' = Append(msgChan, msg)
                     /\ readerpc' = "done"
                ELSE /\ readerpc' = "select"
                     /\ UNCHANGED msgChan
             /\ UNCHANGED errChan
  /\ UNCHANGED <<expectedID, nsent, connErr, ctxDone, chansClosed, callerpc, ret>>
  /\ UNCHANGED <<schedVars, restVars>>

\* A caller that also gives up on the deadline by itself, leaving its
\* goroutine in readPeerMsg.
waitForPeerMsg_OnDeadline ==
  /\ callerpc = "wait"
  /\ ~panicked
  /\ \/ /\ msgChan # <<>>
        /\ ret' = [msg |-> Head(msgChan), e |-> "nil"]
        /\ msgChan' = Tail(msgChan)
        /\ UNCHANGED errChan
     \/ /\ errChan # <<>>
        /\ ret' = [msg |-> NilMsg,
                   e |-> IF Head(errChan) = "DeadlineExceeded" THEN "timeout"
                         ELSE Head(errChan)]
        /\ errChan' = Tail(errChan)
        /\ UNCHANGED msgChan
     \/ /\ ctxDone
        /\ ret' = [msg |-> NilMsg, e |-> "timeout"]
        /\ UNCHANGED <<msgChan, errChan>>
  /\ callerpc' = "returned"
  /\ ctxDone' = TRUE
  /\ chansClosed' = TRUE
  /\ UNCHANGED <<expectedID, wire, nsent, connErr, readerpc>>
  /\ UNCHANGED <<schedVars, restVars>>

\* The caller's select on msgChan and errChan, the return, and the deferred
\* cancel and closes.
waitForPeerMsg ==
  /\ callerpc = "wait"
  /\ ~panicked
  /\ \/ /\ msgChan # <<>>
        /\ ret' = [msg |-> Head(msgChan), e |-> "nil"]
        /\ msgChan' = Tail(msgChan)
        /\ UNCHANGED errChan
     \/ /\ errChan # <<>>
        /\ ret' = [msg |-> NilMsg,
                   e |-> IF Head(errChan) = "DeadlineExceeded" THEN "timeout"
                         ELSE Head(errChan)]
        /\ errChan' = Tail(errChan)
        /\ UNCHANGED msgChan
  /\ callerpc' = "returned"
  /\ ctxDone' = TRUE
  /\ chansClosed' = TRUE
  /\ UNCHANGED <<expectedID, wire, nsent, connErr, readerpc>>
  /\ UNCHANGED <<schedVars, restVars>>

WaitNext ==
  \/ peerSend
  \/ connFail
  \/ deadline
  \/ readerSelect
  \/ readerRead
  \/ waitForPeerMsg

\* One waitForPeerMsg call, against a peer that sends what it likes, when
\* it likes.
WaitInit == WaitStart(ExpectedIDs)

InitWait == WaitInit /\ SchedIdle /\ RestIdle

SpecWait == InitWait /\ [][WaitNext]_vars

\* The same call for every id of a frame the peer can send, MsgChoke
\* included, which no caller awaits today.
InitWaitAny ==
  WaitStart(ExpectedIDs \cup {MsgChoke}) /\ SchedIdle /\ RestIdle

SpecWaitAny == InitWaitAny /\ [][WaitNext]_vars

Next ==
  \/ connectPeers
  \/ NewTorrent
  \/ DownloadFile
  \/ \E w \in Workers : workerPreDownload(w)
  \/ \E w \in Workers : workerDequeue(w)
  \/ \E w \in Workers : workerDownloadPiece(w)
  \/ \E w \in Workers : workerCheck(w)
  \/ \E w \in Workers : workerPostErr(w)
  \/ waiter
  \/ selectWaitCh
  \/ selectErrCh
  \/ closeWorkQueue
  \/ closeErrCh
  \/ writeOut
  \/ return

Spec == Init /\ [][Next]_vars

(* ------------------------------------------------- narrower environments *)
\* At most one connection misbehaves (the first); any peer may fail to
\* connect.
InitFaulty ==
  /\ Init
  /\ \A i \in DOMAIN peers :
       peers[i] \in (IF i = 1 THEN {"bad"} ELSE {"good"}) \cup {"nodial", "nohs"}

SpecFaulty == InitFaulty /\ [][Next]_vars

\* At least one peer, every peer good, and an output file that can be
\* created and written. No worker then reaches a send on errCh, so the two
\* actions around errCh are left out of the next-state relation
\* (GoodNeverPosts says that they are never enabled).
InitGood ==
  /\ Init
  /\ Len(peers) >= 1
  /\ \A i \in DOMAIN peers : peers[i] = "good"

NextGood ==
  \/ connectPeers
  \/ NewTorrent
  \/ DownloadFile
  \/ \E w \in Workers : workerPreDownload(w)
  \/ \E w \in Workers : workerDequeue(w)
  \/ \E w \in Workers : workerDownloadPiece(w)
  \/ \E w \in Workers : workerCheck(w)
  \/ waiter
  \/ selectWaitCh
  \/ closeWorkQueue
  \/ closeErrCh
  \/ writeOutAt(npieces)
  \/ return

GoodNeverPosts ==
  /\ ~ENABLED selectErrCh
  /\ \A w \in Workers : ~ENABLED workerPostErr(w)

\* The Go scheduler runs every goroutine that can run: weak fairness of the
\* steps of the caller, of the goroutine waiting for wg, and of each worker.
FairSpecGood ==
  /\ InitGood
  /\ [][NextGood]_vars
  /\ WF_vars(connectPeers)
  /\ WF_vars(NewTorrent)
  /\ WF_vars(DownloadFile)
  /\ WF_vars(waiter)
  /\ WF_vars(selectWaitCh)
  /\ WF_vars(closeWorkQueue)
  /\ WF_vars(closeErrCh)
  /\ WF_vars(writeOutAt(npieces))
  /\ WF_vars(return)
  /\ \A w \in 1 .. MaxPeers :
       /\ WF_vars(w \in Workers /\ workerPreDownload(w))
       /\ WF_vars(w \in Workers /\ workerDequeue(w))
       /\ WF_vars(w \in Workers /\ workerDownloadPiece(w))
       /\ WF_vars(w \in Workers /\ workerCheck(w))

\* Two workers: both peers connect, the first connection misbehaves, the
\* second does not.
InitWorkers ==
  /\ Init
  /\ peers = <<"bad", "good">>

SpecWorkers == InitWorkers /\ [][Next]_vars

\* More workers than pieces: a one-piece torrent and three peers that
\* connect and may misbehave afterwards.
InitThreePeers == SchedStart(<<"bad", "bad", "bad">>, 1) /\ WaitIdle /\ RestIdle

SpecThreePeers == InitThreePeers /\ [][Next]_vars

\* The scenario of a three-piece torrent and two peers, the first of which
\* drops its connection in the middle of a piece.
InitDropScenario == SchedStart(<<"drop", "good">>, 3) /\ WaitIdle /\ RestIdle

SpecDropScenario == InitDropScenario /\ [][Next]_vars

\* The download command run twice on the same torrent against the same two
\* peers, whose replies are a function of the request: one corrupt, one
\* good.
InitTwoRuns == SchedStart(<<"corrupt", "good">>, 2) /\ WaitIdle /\ RestIdle

\* downloadCommand returns and is started again: what the first run returned
\* and wrote is kept, the second run starts from NewTorrent.
rerun ==
  /\ mainpc = "returned"
  /\ ~panicked
  /\ ~firstRun.done
  /\ firstRun' = [done |-> TRUE, result |-> result, outFile |-> outFile]
  /\ UNCHANGED <<peers, npieces>>
  /\ mainpc' = "connect"
  /\ peerConns' = <<>>
  /\ workQueue' = <<>>
  /\ wqClosed' = FALSE
  /\ retries' = [k \in PieceIdx |-> 0]
  /\ pieceData' = [k \in PieceIdx |-> NilData]
  /\ pieces' = [k \in PieceIdx |-> FALSE]
  /\ wgCount' = 0
  /\ waitCh' = "open"
  /\ errCh' = <<>>
  /\ errClosed' = FALSE
  /\ err' = "nil"
  /\ wpc' = <<>>
  /\ holding' = <<>>
  /\ lastRes' = <<>>
  /\ dropped' = [p \in DOMAIN peers |-> FALSE]
  /\ result' = "none"
  /\ outFile' = NoFile
  /\ fatalPosted' = FALSE
  /\ attempts' = [k \in PieceIdx |-> 0]
  /\ panicked' = FALSE
  /\ connLog' = <<>>
  /\ stores' = <<>>
  /\ UNCHANGED <<waitVars, dlVars, callVars>>

NextTwoRuns == Next \/ rerun

SpecTwoRuns == InitTwoRuns /\ [][NextTwoRuns]_vars

(* ------------------------------------------------- one DownloadPiece call *)
\* math.Ceil(float64(a) / float64(b)) for positive a and b; the conversion
\* to float64 is exact below 2^53, far above the lengths modelled.
CeilDiv(a, b) == (a + b - 1) \div b

\* Lines 142-143: pieceCount.
pieceCount(length, pieceLen) == CeilDiv(length, pieceLen)

\* The size of piece idx without the test for a remainder of zero.
pieceLength_NoEvenFix(length, pieceLen, idx) ==
  IF idx = pieceCount(length, pieceLen) - 1 THEN length % pieceLen ELSE pieceLen

\* Lines 142-156: the size DownloadPiece gives piece idx (idx < pieceCount).
pieceLength(length, pieceLen, idx) ==
  IF idx = pieceCount(length, pieceLen) - 1
  THEN IF length % pieceLen = 0 THEN pieceLen ELSE length % pieceLen
  ELSE pieceLen

\* Line 159: blockCount.
blockCount(len) == CeilDiv(len, BlockSize)

\* blockReqs without the test for a last block of length zero.
blockReqs_NoLastFix(idx, len) ==
  [i \in 0 .. blockCount(len) - 1 |->
     [index |-> idx,
      begin |-> i * BlockSize,
      length |-> IF i = blockCount(len) - 1 THEN len % BlockSize ELSE BlockSize]]

\* Lines 161-180: blockReqs, the request for each block of the piece.
blockReqs(idx, len) ==
  [i \in 0 .. blockCount(len) - 1 |->
     [index |-> idx,
      begin |-> i * BlockSize,
      length |-> IF i = blockCount(len) - 1
                 THEN IF len % BlockSize = 0 THEN BlockSize ELSE len % BlockSize
                 ELSE BlockSize]]

\* Lines 186-189: the number of requests of the wave that starts at block i.
effectivePipeline(i, count) ==
  IF i + PipelineDepth > count THEN count % PipelineDepth ELSE PipelineDepth

\* The lengths tried: the small ones, and those at and next to a multiple
\* of BlockSize.
Lens ==
  (1 .. MaxSmallLen) \cup
  ({q * BlockSize + r : q \in 0 .. MaxBlocks, r \in {0, 1, BlockSize - 1}} \ {0})

\* No block copied to a cell of pieceData yet.
NilBlock == [begin |-> -1, length |-> 0]

\* DownloadPiece(mf, pieceIdx) is called: any metainfo with positive
\* lengths, any piece index up to the first one out of range.
DlInit ==
  /\ mfPieceLength \in Lens
  /\ \E whole \in 0 .. MaxWhole, last \in {0} \cup {l \in Lens : l < mfPieceLength} :
       /\ whole * mfPieceLength + last >= 1
       /\ mfLength = whole * mfPieceLength + last
  /\ dlIdx \in 0 .. pieceCount(mfLength, mfPieceLength)
  /\ dlpc = "start"
  /\ dlLen = 0
  /\ dlI = 0
  /\ dlJ = 0
  /\ dlSent = <<>>
  /\ dlErr = "none"
  /\ dlBuf = <<>>
  /\ dlPending = {}

\* Lines 142-159: the bounds check and the size of the piece.
dlStart ==
  /\ dlpc = "start"
  /\ IF dlIdx >= pieceCount(mfLength, mfPieceLength)
     THEN /\ dlpc' = "done"
          /\ dlErr' = "out_of_bounds"
          /\ UNCHANGED <<dlLen, dlBuf>>
     ELSE /\ dlLen' = pieceLength(mfLength, mfPieceLength, dlIdx)
          /\ dlBuf' = [k \in 0 .. blockCount(dlLen') - 1 |-> NilBlock]
          /\ dlpc' = "send"
          /\ UNCHANGED dlErr
  /\ UNCHANGED <<mfLength, mfPieceLength, dlIdx, dlI, dlJ, dlSent, dlPending>>
  /\ UNCHANGED <<schedVars, waitVars, callVars, runVars>>

\* Lines 191-197: one sendPeerMsg of the wave's first loop; an error of the
\* send ends the call.
dlSendRequest ==
  /\ dlpc = "send"
  /\ \/ /\ dlSent' = Append(dlSent, blockReqs(dlIdx, dlLen)[dlI + dlJ])
        /\ dlPending' = dlPending \cup {dlI + dlJ}
        /\ IF dlJ + 1 < effectivePipeline(dlI, blockCount(dlLen))
           THEN dlJ' = dlJ + 1 /\ UNCHANGED dlpc
           ELSE dlJ' = 0 /\ dlpc' = "recv"
        /\ UNCHANGED dlErr
     \/ /\ dlpc' = "done"
        /\ dlErr' = "send_err"
        /\ UNCHANGED <<dlJ, dlSent, dlPending>>
  /\ UNCHANGED <<mfLength, mfPieceLength, dlIdx, dlLen, dlI, dlBuf>>
  /\ UNCHANGED <<schedVars, waitVars, callVars, runVars>>

\* The piece message a peer answers a request with: the begin of the request
\* and the block of the file it asks for, named by its offset and length.
pieceReply(req) ==
  [index |-> req.index, begin |-> req.begin,
   block |-> [begin |-> req.begin, length |-> req.length]]

\* The block copied to the first cell that is still empty, in the order of
\* arrival.
copyAt_Arrival(buf, begin, block) ==
  LET free == {k \in DOMAIN buf : buf[k] = NilBlock}
  IN [buf EXCEPT ![CHOOSE k \in free : \A m \in free : k <= m] = block]

\* Line 212: copy(pieceData[piece.begin:], piece.block), in cells of
\* BlockSize bytes.
copyAt(buf, begin, block) == [buf EXCEPT ![begin \div BlockSize] = block]

\* The second loop of a wave ended one message early.
dlRecvPiece_Early ==
  /\ dlpc = "recv"
  /\ \/ /\ \E k \in dlPending :
             LET piece == pieceReply(blockReqs(dlIdx, dlLen)[k])
             IN /\ dlBuf' = copyAt(dlBuf, piece.begin, piece.block)
                /\ dlPending' = dlPending \ {k}
        /\ IF dlJ + 2 < effectivePipeline(dlI, blockCount(dlLen))
           THEN dlJ' = dlJ + 1 /\ UNCHANGED <<dlI, dlpc>>
           ELSE /\ dlJ' = 0
                /\ dlI' = dlI + PipelineDepth
                /\ dlpc' = IF dlI + PipelineDepth < blockCount(dlLen)
                           THEN "send" ELSE "verify"
        /\ UNCHANGED dlErr
     \/ /\ dlpc' = "done"
        /\ dlErr' = "recv_err"
        /\ UNCHANGED <<dlI, dlJ, dlBuf, dlPending>>
  /\ UNCHANGED <<mfLength, mfPieceLength, dlIdx, dlLen, dlSent>>
  /\ UNCHANGED <<schedVars, waitVars, callVars, runVars>>

\* Lines 199-213: one waitForPeerMsg(MsgPiece) of the wave's second loop,
\* the peer answering any of the requests it still owes, and after the last
\* one of the wave the step of the outer loop; an error of the wait or of
\* the payload ends the call.
dlRecvPiece ==
  /\ dlpc = "recv"
  /\ \/ /\ \E k \in dlPending :
             LET piece == pieceReply(blockReqs(dlIdx, dlLen)[k])
             IN /\ dlBuf' = copyAt(dlBuf, piece.begin, piece.block)
                /\ dlPending' = dlPending \ {k}
        /\ IF dlJ + 1 < effectivePipeline(dlI, blockCount(dlLen))
           THEN dlJ' = dlJ + 1 /\ UNCHANGED <<dlI, dlpc>>
           ELSE /\ dlJ' = 0
                /\ dlI' = dlI + PipelineDepth
                /\ dlpc' = IF dlI + PipelineDepth < blockCount(dlLen)
                           THEN "send" ELSE "verify"
        /\ UNCHANGED dlErr
     \/ /\ dlpc' = "done"
        /\ dlErr' = "recv_err"
        /\ UNCHANGED <<dlI, dlJ, dlBuf, dlPending>>
  /\ UNCHANGED <<mfLength, mfPieceLength, dlIdx, dlLen, dlSent>>
  /\ UNCHANGED <<schedVars, waitVars, callVars, runVars>>

\* Lines 218-220: return pieceData, verifyPiece(pieceData, expectedHash).
dlVerify ==
  /\ dlpc = "verify"
  /\ dlpc' = "done"
  /\ \E d \in {Content(dlIdx), WrongData} :
       dlErr' = verifyPiece(d, Sha1(Content(dlIdx)))
  /\ UNCHANGED <<mfLength, mfPieceLength, dlIdx, dlLen, dlI, dlJ, dlSent, dlBuf,
                 dlPending>>
  /\ UNCHANGED <<schedVars, waitVars, callVars, runVars>>

DlNext ==
  \/ dlStart
  \/ dlSendRequest
  \/ dlRecvPiece
  \/ dlVerify

InitPiece == DlInit /\ SchedIdle /\ WaitIdle /\ CallIdle /\ FirstRun

SpecPiece == InitPiece /\ [][DlNext]_vars

\* The piece messages a peer can put on the connection, whether asked for
\* or not: a payload shorter than 8 bytes, or an index, a begin and a block
\* of some length.
PieceMsgs ==
  [short : BOOLEAN, index : 0 .. 1,
   begin : {0, BlockSize, BlockSize + 1, BlockSize + 2, 5 * BlockSize, 6 * BlockSize,
            6 * BlockSize + 1},
   blockLen : {0, 1, BlockSize}]

\* PiecePayload.UnmarshalBinary: 8 bytes at least; index, begin and the
\* rest as block.
NewPiecePayloadFromBytes(msg) ==
  IF msg.short
  THEN [e |-> "invalid_length", index |-> 0, begin |-> 0, blockLen |-> 0]
  ELSE [e |-> "nil", index |-> msg.index, begin |-> msg.begin,
        blockLen |-> msg.blockLen]

\* copy(pieceData[begin:], block) on a buffer of len bytes: the slice
\* expression panics when begin is beyond the length; copy writes as many
\* bytes as fit.
copyBlock(len, begin, blockLen) ==
  IF begin > len
  THEN [panics |-> TRUE, n |-> 0]
  ELSE [panics |-> FALSE, n |-> IF blockLen < len - begin THEN blockLen ELSE len - begin]

\* One pass of the receive loop of DownloadPiece on the next piece message
\* of the connection: unmarshal, copy at piece.begin. Neither piece.index
\* nor piece.begin is compared with anything.
recvPiece(len, msg) ==
  LET piece == NewPiecePayloadFromBytes(msg)
      cp == copyBlock(len, piece.begin, piece.blockLen)
  IN IF piece.e # "nil"
     THEN [done |-> TRUE, e |-> piece.e, panicked |-> FALSE, begin |-> 0, n |-> 0]
     ELSE [done |-> TRUE, e |-> "nil", panicked |-> cp.panics,
           begin |-> piece.begin, n |-> cp.n]

\* The requests of the wave that starts at block i of piece idx.
Wave(idx, len, i) ==
  {blockReqs(idx, len)[i + j] : j \in 0 .. effectivePipeline(i, blockCount(len)) - 1}

\* The calls tried: a piece of one block and a byte, or of six blocks, in
\* its first or second wave.
RecvPieceArgs ==
  {a \in [idx : 0 .. 1, len : {BlockSize + 1, 6 * BlockSize}, i : {0, PipelineDepth},
          msg : PieceMsgs] : a.i < blockCount(a.len)}

\* The socket of one NewPeerConn / NewPeerConnWithExtension call when the
\* constructor returns. Both constructors have the same three exits: the dial
\* fails (no socket), the handshake fails (return nil, err: the socket is
\* neither closed nor handed out), success (the PeerConn owns the socket).
\* No exit calls conn.Close().
socketAfter(kind) ==
  [dialled |-> NewPeerConn(kind) # "dialerr",
   closed |-> FALSE,
   returned |-> NewPeerConn(kind) = "ok"]

\* The peers connectPeers gets to: all of them up to and including the first
\* one whose NewPeerConn fails.
Visited(ps) ==
  {i \in 1 .. Len(ps) : \A j \in 1 .. i - 1 : NewPeerConn(ps[j]) = "ok"}

\* NewTorrent over the peer list ps, told by its sockets: dialled, closed,
\* and owned by the Torrent handed to the caller. When connectPeers returns
\* an error NewTorrent returns nil, so the caller has nothing to Close.
newTorrentSockets(ps) ==
  LET failed == \E i \in Visited(ps) : NewPeerConn(ps[i]) # "ok"
  IN [done |-> TRUE,
      e |-> IF failed THEN "err" ELSE "nil",
      dialled |-> {i \in Visited(ps) : socketAfter(ps[i]).dialled},
      closed |-> {i \in Visited(ps) : socketAfter(ps[i]).closed},
      owned |-> IF failed THEN {}
                ELSE {i \in Visited(ps) : socketAfter(ps[i]).returned}]

(* ------------------------------------------- the extension sub-handshake *)
\* The payload of an id-20 message as the peer sends it:
\*   kind      empty (no byte at all), garbage (the bencoding after the first
\*             byte does not decode), notdict (it decodes to something that
\*             is not a dictionary), dict
\*   m         of a dict: the key m is absent, is not a dictionary, or is one
\*   ut        of m: ut_metadata is absent, is not an integer, or is one
\*   utval     the integer
\*   msgType   msg_type of the dict, -1 when absent
\*   trailing  what follows the dict: nothing, a dictionary, another value,
\*             bytes that do not decode
ExtData ==
  [kind : {"empty", "garbage", "notdict"}, m : {"absent"}, ut : {"absent"},
   utval : {0}, msgType : {-1}, trailing : {"none"}]
  \cup
  [kind : {"dict"}, m : {"absent", "notmap"}, ut : {"absent"}, utval : {0},
   msgType : {-1, 0, 1, 2}, trailing : {"none", "dict", "other", "garbage"}]
  \cup
  [kind : {"dict"}, m : {"map"}, ut : {"absent", "notint"}, utval : {0},
   msgType : {-1, 0, 1, 2}, trailing : {"none", "dict", "other", "garbage"}]
  \cup
  [kind : {"dict"}, m : {"map"}, ut : {"int"}, utval : {1, 258},
   msgType : {-1, 0, 1, 2}, trailing : {"none", "dict", "other", "garbage"}]

\* ExtensionPayload.UnmarshalBinary: the first byte is the id, the rest must
\* decode to a dictionary; a value that follows it becomes meta_piece.
UnmarshalBinary(data) ==
  CASE data.kind = "empty" -> [e |-> "invalid_length", metaPiece |-> "none"]
    [] data.kind = "garbage" -> [e |-> "decode_err", metaPiece |-> "none"]
    [] data.kind = "notdict" -> [e |-> "invalid_payload", metaPiece |-> "none"]
    [] OTHER -> IF data.trailing = "garbage"
                THEN [e |-> "decode_err", metaPiece |-> "none"]
                ELSE [e |-> "nil", metaPiece |-> data.trailing]

\* What the peer of one connection attempt does: whether the dial succeeds,
\* how the 68-byte handshake goes, whether its reply sets 0x10 in reserved
\* byte 5, whether a bitfield arrives, whether our send succeeds, whether
\* an id-20 message arrives, and its payload.
ExtPeers ==
  [dial : BOOLEAN, hs : {"ok", "ioerr"}, extBit : BOOLEAN, bitfield : BOOLEAN,
   send : BOOLEAN, reply : BOOLEAN, data : ExtData]

\* extensionHandshake: wait for the bitfield, send our extension handshake,
\* wait for the peer's, and take m.ut_metadata from it. The type assertion
\* Payload["m"].(map[string]any) has no ok result: it panics when m is
\* absent or not a dictionary.
extensionHandshake(peer) ==
  LET fail(e) == [id |-> 0, e |-> e, panics |-> FALSE]
  IN CASE ~peer.bitfield -> fail("no_bitfield")
       [] ~peer.send -> fail("send_err")
       [] ~peer.reply -> fail("no_reply")
       [] UnmarshalBinary(peer.data).e # "nil" -> fail("unmarshal_err")
       [] peer.data.m # "map" -> [id |-> 0, e |-> "panic", panics |-> TRUE]
       [] peer.data.ut # "int" -> fail("missing_ut_metadata")
       [] OTHER -> [id |-> peer.data.utval % 256, e |-> "nil", panics |-> FALSE]

\* handshake(infoHash, reservedBytes): withExt says that reservedBytes sets
\* 0x10 in byte 5. The extension handshake runs only when the peer's reply
\* sets the bit too; otherwise the handshake is done, without error.
handshake(peer, withExt) ==
  IF peer.hs # "ok"
  THEN [e |-> "handshake_err", extSet |-> FALSE, extID |-> 0, panics |-> FALSE]
  ELSE IF withExt /\ peer.extBit
  THEN LET eh == extensionHandshake(peer)
       IN [e |-> eh.e, extSet |-> ~eh.panics, extID |-> eh.id, panics |-> eh.panics]
  ELSE [e |-> "nil", extSet |-> FALSE, extID |-> 0, panics |-> FALSE]

\* NewPeerConnWithExtension: dial, then handshake with the extension bit;
\* the connection is returned when the handshake returned no error.
NewPeerConnWithExtension(peer) ==
  IF ~peer.dial
  THEN [done |-> TRUE, conn |-> FALSE, extSet |-> FALSE, extID |-> 0,
        e |-> "dial_err", panicked |-> FALSE]
  ELSE LET h == handshake(peer, TRUE)
       IN [done |-> TRUE, conn |-> h.e = "nil", extSet |-> h.extSet,
           extID |-> h.extID, e |-> h.e, panicked |-> h.panics]

\* A connection as RequestMetadata finds it, with the peer's answer.
MetaPeers ==
  [extSet : BOOLEAN, send : BOOLEAN, reply : BOOLEAN, data : ExtData]

\* RequestMetadata: ExtensionID() dereferences pc.extensionID before it
\* tests it; then the request is sent, the first id-20 message is awaited,
\* and whatever NewExtensionPayloadFromBytes makes of its payload is
\* returned.
RequestMetadata(pc) ==
  LET res(piece, e, pn) ==
        [done |-> TRUE, piece |-> piece, e |-> e, panicked |-> pn]
  IN CASE ~pc.extSet -> res(FALSE, "panic", TRUE)
       [] ~pc.send -> res(FALSE, "send_err", FALSE)
       [] ~pc.reply -> res(FALSE, "recv_err", FALSE)
       [] UnmarshalBinary(pc.data).e # "nil" -> res(FALSE, "payload_err", FALSE)
       [] OTHER -> res(TRUE, "nil", FALSE)

\* ExtensionID: return *pc.extensionID, pc.extensionID != nil. The operand
\* *pc.extensionID is evaluated whatever the pointer: on nil the call
\* panics with a nil pointer dereference.
ExtensionID(pc) ==
  IF pc.extSet
  THEN [id |-> pc.extID, ok |-> TRUE, panics |-> FALSE]
  ELSE [id |-> 0, ok |-> FALSE, panics |-> TRUE]

\* The peers that let dial and the 68-byte handshake succeed.
ConnectingPeers == {p \in ExtPeers : p.dial /\ p.hs = "ok"}

\* NewPeerConn (withExt FALSE) or NewPeerConnWithExtension, and ExtensionID
\* on the connection when one is returned, as magnetHandshakeCommand does.
ConnectThenExtensionID(peer, withExt) ==
  LET h == handshake(peer, withExt)
      pc == [extSet |-> h.extSet, extID |-> h.extID]
  IN IF h.panics \/ h.e # "nil"
     THEN [done |-> TRUE, conn |-> FALSE, recorded |-> FALSE, id |-> 0,
           ok |-> FALSE, panicked |-> h.panics]
     ELSE [done |-> TRUE, conn |-> TRUE, recorded |-> h.extSet,
           id |-> ExtensionID(pc).id, ok |-> ExtensionID(pc).ok,
           panicked |-> ExtensionID(pc).panics]

\* What conn.Read puts into the 68-byte buffer for the handshake: n bytes
\* read (0 stands for a read error), the first byte, whether bytes 1..19
\* are "BitTorrent protocol", whether reserved byte 5 has 0x10.
HandshakeReplies ==
  [n : {0, handshakeMsgSize - 1, handshakeMsgSize}, pstrlen : {19, 0},
   pstr : BOOLEAN, extBit : BOOLEAN]

\* receiveHandshake: one conn.Read; an error or a count other than 68
\* fails.
receiveHandshake(reply) ==
  CASE reply.n = 0 -> [e |-> "read_err", len |-> 0]
    [] reply.n # handshakeMsgSize -> [e |-> "invalid_length", len |-> 0]
    [] OTHER -> [e |-> "nil", len |-> handshakeMsgSize]

\* HandshakeMsg.Unmarshal: the length is checked; InfoHash, ReservedBytes
\* and PeerId are sliced out of bytes 20..67. Bytes 0..19 are not read.
Unmarshal(len, reply) ==
  IF len # handshakeMsgSize
  THEN [e |-> "invalid_size", extBit |-> FALSE]
  ELSE [e |-> "nil", extBit |-> reply.extBit]

\* handshake, from the send on, against this reply: the connection is
\* handshaked when no step fails.
handshakeOn(reply) ==
  LET rcv == receiveHandshake(reply)
      resp == Unmarshal(rcv.len, reply)
  IN IF rcv.e # "nil" THEN [done |-> TRUE, e |-> rcv.e, handshaked |-> FALSE]
     ELSE IF resp.e # "nil" THEN [done |-> TRUE, e |-> resp.e, handshaked |-> FALSE]
     ELSE [done |-> TRUE, e |-> "nil", handshaked |-> TRUE]

(* ------------------------------------------------------- bencode encoder *)
\* Strings are sequences of bytes. A value to encode is <<"i", n>>,
\* <<"s", bytes>>, <<"l", sequence of values>> or <<"d", map>>, the map a
\* function from its keys to values.
KeyList == <<<<97>>, <<97, 98>>, <<66>>, <<98>>, <<97, 97>>>>
Keys == {KeyList[i] : i \in 1 .. NKeys}

\* Go's < on strings: bytewise lexicographic, a proper prefix first.
StrLess(a, b) ==
  \/ Len(a) < Len(b) /\ \A i \in 1 .. Len(a) : a[i] = b[i]
  \/ \E i \in 1 .. (IF Len(a) < Len(b) THEN Len(a) ELSE Len(b)) :
       /\ a[i] < b[i]
       /\ \A j \in 1 .. i - 1 : a[j] = b[j]

\* sort.Strings left out: the keys stay in iteration order.
SortStrings_Unsorted(keys) == keys

RECURSIVE SortStrings(_)
\* sort.Strings(keys): the keys in increasing order, by insertion.
SortStrings(keys) ==
  IF Len(keys) <= 1 THEN keys
  ELSE LET rest == SortStrings(Tail(keys))
           k == Head(keys)
           before == SelectSeq(rest, LAMBDA x : StrLess(x, k))
           after == SelectSeq(rest, LAMBDA x : ~StrLess(x, k))
       IN before \o <<k>> \o after

RECURSIVE Decimal(_)
\* %d: the decimal digits of an integer, with - for a negative one.
Decimal(n) ==
  IF n < 0 THEN <<45>> \o Decimal(-n)
  ELSE IF n < 10 THEN <<48 + n>>
  ELSE Decimal(n \div 10) \o <<48 + (n % 10)>>

bencodeString(str) == Decimal(Len(str)) \o <<58>> \o str

bencodeInt(i) == <<105>> \o Decimal(i) \o <<101>>

\* for k := range d: the keys of d as the runtime hands them out; ord ranks
\* all keys for this run.
RangeKeys(d, ord) == SelectSeq(ord, LAMBDA k : k \in DOMAIN d)

RECURSIVE bencodeList(_, _), bencodeDict(_, _), bencodeVal(_, _)
bencodeList(l, ord) ==
  IF l = <<>> THEN <<108, 101>>
  ELSE LET front == bencodeList(SubSeq(l, 1, Len(l) - 1), ord)
       IN SubSeq(front, 1, Len(front) - 1) \o bencodeVal(l[Len(l)], ord) \o <<101>>

RECURSIVE WriteKeys(_, _, _)
\* The loop over the sorted keys: key, then value.
WriteKeys(d, keys, ord) ==
  IF keys = <<>> THEN <<>>
  ELSE bencodeString(Head(keys)) \o bencodeVal(d[Head(keys)], ord)
         \o WriteKeys(d, Tail(keys), ord)

bencodeDict(d, ord) ==
  <<100>> \o WriteKeys(d, SortStrings(RangeKeys(d, ord)), ord) \o <<101>>

bencodeVal(v, ord) ==
  CASE v[1] = "s" -> bencodeString(v[2])
    [] v[1] = "i" -> bencodeInt(v[2])
    [] v[1] = "l" -> bencodeList(v[2], ord)
    [] v[1] = "d" -> bencodeDict(v[2], ord)

\* The maps with keys from K and values from V.
MapsOver(K, V) == UNION {[D -> V] : D \in SUBSET K}

\* The values encoded: dictionaries whose values are integers, strings,
\* dictionaries of integers (empty, or with every key), and lists holding
\* such a dictionary.
InnerDicts == {<<"d", <<>>>>} \cup {<<"d", m>> : m \in [Keys -> {<<"i", -12>>}]}
EncVals ==
  {<<"i", 0>>, <<"s", <<98, 97>>>>} \cup InnerDicts
    \cup {<<"l", <<<<"i", 7>>, <<"d", m>>>>>> : m \in [Keys -> {<<"i", 3>>}]}
EncDicts == {<<"d", m>> : m \in MapsOver(Keys, EncVals)}

\* The orders in which a range over a map can hand out the keys.
RangeOrders ==
  {o \in [1 .. NKeys -> Keys] : \A i, j \in 1 .. NKeys : i # j => o[i] # o[j]}

Reverse(q) == [i \in 1 .. Len(q) |-> q[Len(q) + 1 - i]]

EncInit ==
  /\ fn = "bencodeVal"
  /\ \E v \in EncDicts, o \in RangeOrders : arg = [v |-> v, ord |-> o]
  /\ out = [done |-> FALSE]

\* The same value encoded twice, the second time with the maps handing out
\* their keys in the opposite order.
callBencodeVal ==
  /\ fn = "bencodeVal"
  /\ ~out.done
  /\ out' = [done |-> TRUE, first |-> bencodeVal(arg.v, arg.ord),
             second |-> bencodeVal(arg.v, Reverse(arg.ord))]
  /\ UNCHANGED <<fn, arg>>
  /\ UNCHANGED <<schedVars, waitVars, dlVars, runVars>>

InitEncode == EncInit /\ SchedIdle /\ WaitIdle /\ DlIdle /\ FirstRun

SpecEncode == InitEncode /\ [][callBencodeVal]_vars

(* ------------------------------------------------------- bencode decoder *)
\* A bufio.Reader over a strings.Reader: the buffer, the read and write
\* offsets into it, the bytes the source still holds, the pending error.
NewReader(src) ==
  [buf |-> [i \in 1 .. BufSize |-> 0], r |-> 0, w |-> 0, src |-> src, err |-> "nil"]

Min(a, b) == IF a < b THEN a ELSE b

Buffered(b) == b.w - b.r

\* fill: move the unread bytes to the front of the buffer, then one Read of
\* the source into the room behind them. The source gives what it has, up
\* to the room, and EOF when it has nothing.
fill(b) ==
  LET w1 == b.w - b.r
      n == Min(BufSize - w1, Len(b.src))
  IN [buf |-> [i \in 1 .. BufSize |->
                 IF i <= w1 THEN b.buf[b.r + i]
                 ELSE IF i <= w1 + n THEN b.src[i - w1]
                 ELSE b.buf[i]],
      r |-> 0,
      w |-> w1 + n,
      src |-> SubSeq(b.src, n + 1, Len(b.src)),
      err |-> IF Len(b.src) = 0 THEN "EOF" ELSE "nil"]

RECURSIVE PeekFill(_, _)
\* The loop of Peek: fill while fewer than n bytes are buffered, the buffer
\* is not full and no error is pending.
PeekFill(b, n) ==
  IF Buffered(b) < n /\ Buffered(b) < BufSize /\ b.err = "nil"
  THEN PeekFill(fill(b), n)
  ELSE b

\* Peek(n): the slice buf[lo:hi] of the reader's own buffer, not a copy. For
\* n larger than the buffer: whatever is buffered, with ErrBufferFull.
Peek(b, n) ==
  LET b1 == PeekFill(b, n)
  IN IF n > BufSize
     THEN [b |-> b1, lo |-> b1.r, hi |-> b1.w, e |-> "ErrBufferFull"]
     ELSE IF Buffered(b1) < n
     THEN [b |-> [b1 EXCEPT !.err = "nil"], lo |-> b1.r, hi |-> b1.w,
           e |-> IF b1.err # "nil" THEN b1.err ELSE "ErrBufferFull"]
     ELSE [b |-> b1, lo |-> b1.r, hi |-> b1.r + n, e |-> "nil"]

RECURSIVE Discard(_, _)
\* Discard(n): skip what is buffered, filling when the buffer is empty,
\* until n bytes are skipped or the source fails.
Discard(b, n) ==
  IF n = 0 THEN [b |-> b, e |-> "nil"]
  ELSE LET b1 == IF Buffered(b) = 0 THEN fill(b) ELSE b
           skip == Min(Buffered(b1), n)
           b2 == [b1 EXCEPT !.r = @ + skip]
       IN IF n - skip = 0 THEN [b |-> b2, e |-> "nil"]
          ELSE IF b2.err # "nil" THEN [b |-> [b2 EXCEPT !.err = "nil"], e |-> b2.err]
          ELSE Discard(b2, n - skip)

\* Read(p) with len(p) = n: one read of the source when nothing is buffered
\* (straight into p when p is at least as long as the buffer), then a copy
\* of what is buffered, at most n bytes.
Read(b, n) ==
  IF n = 0
  THEN [b |-> IF Buffered(b) > 0 THEN b ELSE [b EXCEPT !.err = "nil"], data |-> <<>>,
        e |-> IF Buffered(b) > 0 THEN "nil" ELSE b.err]
  ELSE IF Buffered(b) = 0 /\ b.err # "nil"
  THEN [b |-> [b EXCEPT !.err = "nil"], data |-> <<>>, e |-> b.err]
  ELSE IF Buffered(b) = 0 /\ n >= BufSize
  THEN LET k == Min(n, Len(b.src))
       IN [b |-> [b EXCEPT !.src = SubSeq(@, k + 1, Len(@))],
           data |-> SubSeq(b.src, 1, k),
           e |-> IF Len(b.src) = 0 THEN "EOF" ELSE "nil"]
  ELSE LET b1 == IF Buffered(b) = 0 THEN fill([b EXCEPT !.r = 0, !.w = 0]) ELSE b
           k == Min(n, Buffered(b1))
       IN IF Buffered(b1) = 0
          THEN [b |-> [b1 EXCEPT !.err = "nil"], data |-> <<>>, e |-> b1.err]
          ELSE [b |-> [b1 EXCEPT !.r = @ + k],
                data |-> SubSeq(b1.buf, b1.r + 1, b1.r + k), e |-> "nil"]

\* The bytes not yet read: the buffered ones, then the source's.
Unread(b) == SubSeq(b.buf, b.r + 1, b.w) \o b.src

RECURSIVE ReadStringFrom(_, _, _)
\* ReadString(delim): everything up to and including the first delim, the
\* buffer refilled as often as needed; the error of the source when delim
\* never comes.
ReadStringFrom(b, delim, acc) ==
  LET unread == SubSeq(b.buf, b.r + 1, b.w)
      hit == {i \in 1 .. Len(unread) : unread[i] = delim}
  IN IF hit # {}
     THEN LET i == CHOOSE x \in hit : \A y \in hit : x <= y
          IN [b |-> [b EXCEPT !.r = @ + i], str |-> acc \o SubSeq(unread, 1, i),
              e |-> "nil"]
     ELSE IF b.err # "nil"
     THEN [b |-> [b EXCEPT !.r = b.w, !.err = "nil"], str |-> acc \o unread, e |-> b.err]
     ELSE IF Buffered(b) >= BufSize
     THEN ReadStringFrom([b EXCEPT !.r = b.w], delim, acc \o unread)
     ELSE ReadStringFrom(fill(b), delim, acc)

ReadString(b, delim) == ReadStringFrom(b, delim, <<>>)

\* ReadRune on ASCII input: one byte, after a fill when nothing is
\* buffered; rune 0 with the error when there is none.
ReadRune(b) ==
  LET b1 == IF Buffered(b) = 0 /\ b.err = "nil" THEN fill(b) ELSE b
  IN IF Buffered(b1) = 0
     THEN [b |-> [b1 EXCEPT !.err = "nil"], ch |-> 0, e |-> b1.err]
     ELSE [b |-> [b1 EXCEPT !.r = @ + 1], ch |-> b1.buf[b1.r + 1], e |-> "nil"]

RECURSIVE DigitsValue(_)
DigitsValue(ds) ==
  IF ds = <<>> THEN 0 ELSE 10 * DigitsValue(SubSeq(ds, 1, Len(ds) - 1)) + (ds[Len(ds)] - 48)

\* strconv.Atoi: an optional + or -, then one or more decimal digits and
\* nothing else. (Inputs here are too short to overflow an int.)
Atoi(str) ==
  LET signed == str # <<>> /\ str[1] \in {43, 45}
      ds == IF signed THEN Tail(str) ELSE str
  IN IF ds = <<>> \/ \E i \in 1 .. Len(ds) : ds[i] \notin 48 .. 57
     THEN [v |-> 0, e |-> "syntax"]
     ELSE [v |-> IF signed /\ str[1] = 45 THEN 0 - DigitsValue(ds) ELSE DigitsValue(ds),
           e |-> "nil"]

\* parseInt: ReadString(delim), drop the delimiter, Atoi.
parseInt(b, delim) ==
  LET rs == ReadString(b, delim)
  IN IF rs.e # "nil" THEN [b |-> rs.b, v |-> 0, e |-> rs.e]
     ELSE LET a == Atoi(SubSeq(rs.str, 1, Len(rs.str) - 1))
          IN [b |-> rs.b, v |-> a.v, e |-> a.e]

\* decodeInt: the rune i, then parseInt up to e.
decodeInt(b) ==
  LET rr == ReadRune(b)
  IN IF rr.ch # 105 THEN [done |-> TRUE, v |-> 0, e |-> "not_i"]
     ELSE IF rr.e # "nil" THEN [done |-> TRUE, v |-> 0, e |-> rr.e]
     ELSE LET pi == parseInt(rr.b, 101)
          IN IF pi.e # "nil" THEN [done |-> TRUE, v |-> 0, e |-> "invalid_integer"]
             ELSE [done |-> TRUE, v |-> pi.v, e |-> "nil"]

\* decodeByteString: the length up to the colon, then Peek(length). When
\* Peek fails the bytes are discarded and the peeked slice is returned with
\* Discard's error: a slice of the reader's buffer, holding what the buffer
\* holds when Discard returns. Otherwise Read into a new buffer.
decodeByteString(b) ==
  LET pi == parseInt(b, 58)
      res(bytes, e, b1) == [done |-> TRUE, bytes |-> bytes, e |-> e, rest |-> Unread(b1)]
  IN IF pi.e # "nil" THEN res(<<>>, "invalid_length_format", pi.b)
     ELSE IF pi.v < 0 THEN res(<<>>, "invalid_length", pi.b)
     ELSE LET pk == Peek(pi.b, pi.v)
          IN IF pk.e # "nil"
             THEN LET dc == Discard(pk.b, pi.v)
                  IN res(SubSeq(dc.b.buf, pk.lo + 1, pk.hi), dc.e, dc.b)
             ELSE LET rd == Read(pk.b, pi.v)
                  IN res(rd.data, rd.e, rd.b)

\* The inputs of decodeInt: the strings over i, e, -, +, 0 and 3.
IntInputs == SeqsUpTo({105, 101, 45, 43, 48, 51}, MaxIntLen)

\* The inputs of decodeByteString: a declared length n, a colon, and m
\* bytes that tell their position.
StrData(m) == [i \in 1 .. m |-> 200 + i]
StrInput(n, m) == Decimal(n) \o <<58>> \o StrData(m)

(* -------------------------------------------------------------- metainfo *)
\* A key of the info dictionary as the getters of util see it: absent, of
\* the wrong kind, or of the kind asked for; v is the integer, or the
\* number of bytes of pieces.
InfoKey(vals) == [kind : {"absent", "wrong"}, v : {0}] \cup [kind : {"ok"}, v : vals]

InfoMaps ==
  [name : InfoKey({0}),
   pieces : InfoKey({0, HashLen, HashLen + 1, 2 * HashLen}),
   length : InfoKey({0, 1, 2 * HashLen, 2 * HashLen + 1}),
   pieceLength : InfoKey({0, HashLen, 2 * HashLen})]

\* pieceHashes: one hash per started run of 20 bytes, pieces[i : i+20]. When
\* the last run is short the slice reaches past len(pieces): within the
\* capacity the allocator gave the conversion it yields the bytes padded
\* with zeros, beyond it the slice expression panics.
pieceHashes(len) ==
  LET run(k) == <<"hex", [j \in 1 .. HashLen |->
                            IF HashLen * (k - 1) + j <= len
                            THEN HashLen * (k - 1) + j ELSE 0]>>
      all == [k \in 1 .. CeilDiv(len, HashLen) |-> run(k)]
  IN IF len % HashLen = 0
     THEN {[ph |-> all, panics |-> FALSE]}
     ELSE {[ph |-> all, panics |-> FALSE], [ph |-> <<>>, panics |-> TRUE]}

\* NewMetaInfoFromMap: name, pieces, length, piece length in this order,
\* each returning "invalid <key>" when absent or of the wrong kind; then the
\* piece hashes and the info hash. Nothing else is looked at.
NewMetaInfoFromMap(m) ==
  LET mi(pl, l, pcl, ph) ==
        [Name |-> m.name.v, PiecesLen |-> pl, Length |-> l, PieceLength |-> pcl,
         PieceHashes |-> ph]
      fail(e, pl, l) ==
        {[done |-> TRUE, e |-> e, panicked |-> FALSE, mi |-> mi(pl, l, 0, <<>>)]}
  IN CASE m.name.kind # "ok" -> fail("invalid name", 0, 0)
       [] m.pieces.kind # "ok" -> fail("invalid pieces", 0, 0)
       [] m.length.kind # "ok" -> fail("invalid length", m.pieces.v, 0)
       [] m.pieceLength.kind # "ok" ->
            fail("invalid piece length", m.pieces.v, m.length.v)
       [] OTHER ->
            {[done |-> TRUE, e |-> IF o.panics THEN "panic" ELSE "nil",
              panicked |-> o.panics,
              mi |-> mi(m.pieces.v, m.length.v, m.pieceLength.v, o.ph)] :
               o \in pieceHashes(m.pieces.v)}

\* The info dictionaries a MetaInfo is built from: the four keys it keeps,
\* and possibly one more (private, source).
InfoKeyNames ==
  [length |-> <<108, 101, 110, 103, 116, 104>>,
   name |-> <<110, 97, 109, 101>>,
   pieceLength |-> <<112, 105, 101, 99, 101, 32, 108, 101, 110, 103, 116, 104>>,
   pieces |-> <<112, 105, 101, 99, 101, 115>>,
   private |-> <<112, 114, 105, 118, 97, 116, 101>>,
   source |-> <<115, 111, 117, 114, 99, 101>>]

InfoDicts ==
  LET K == InfoKeyNames
      base == {(K.length :> <<"i", l>>) @@ (K.name :> <<"s", <<97>>>>)
                 @@ (K.pieceLength :> <<"i", 2>>) @@ (K.pieces :> <<"s", p>>) :
               l \in {0, 3, 12}, p \in {<<>>, <<7>>, <<7, 8>>}}
      extra == {<<>>, K.private :> <<"i", 1>>, K.source :> <<"s", <<120>>>>}
  IN {b @@ e : b \in base, e \in extra}

\* The fields NewMetaInfoFromMap keeps of an info dictionary.
MetaInfoOf(info) ==
  LET K == InfoKeyNames
  IN [Name |-> info[K.name][2], Pieces |-> info[K.pieces][2],
      Length |-> info[K.length][2], PieceLength |-> info[K.pieceLength][2]]

\* MetaInfo.Bencode: the bencoding of a map of four keys made from the
\* fields.
Bencode(mi) ==
  LET K == InfoKeyNames
  IN bencodeVal(<<"d", (K.length :> <<"i", mi.Length>>) @@ (K.name :> <<"s", mi.Name>>)
                         @@ (K.pieceLength :> <<"i", mi.PieceLength>>)
                         @@ (K.pieces :> <<"s", mi.Pieces>>)>>,
                <<K.pieces, K.pieceLength, K.name, K.length>>)

\* MetaInfo.Sha1Sum: the SHA-1 of Bencode().
Sha1Sum(mi) == Sha1(Bencode(mi))

(* ---------------------------------------------------------- magnet links *)
\* A magnet link: whether it starts with magnet:? and the parts between
\* the & signs, each a key and what follows the =. The value of xt is the
\* text after urn:btih: (other xt forms count as another key); tr is
\* "ok", "badescape" (a % not followed by two hex digits) or empty.
HexText(n) == [i \in 1 .. n |-> IF i % 2 = 1 THEN 97 ELSE 51]

MagnetParts ==
  [key : {"xt"}, val : {HexText(n) : n \in {0, 2, 2 * HashLen - 1, 2 * HashLen,
                                              2 * HashLen + 2}}
                         \cup {[HexText(2 * HashLen) EXCEPT ![1] = 103]}]
  \cup [key : {"dn"}, val : {<<>>, <<102>>}]
  \cup [key : {"tr"}, val : {"", "ok", "badescape"}]
  \cup [key : {"other"}, val : {""}]

MagnetLinks == [prefix : BOOLEAN, parts : SeqsUpTo(MagnetParts, MaxParts)]

\* hex.DecodeString: an error for a character that is not a hex digit or
\* an odd length, else one byte per two digits.
DecodeString(str) ==
  LET val(c) == IF c \in 48 .. 57 THEN c - 48
                ELSE IF c \in 97 .. 102 THEN c - 87 ELSE c - 55
      isHex(c) == c \in (48 .. 57) \cup (97 .. 102) \cup (65 .. 70)
  IN IF (\E i \in 1 .. Len(str) : ~isHex(str[i])) \/ Len(str) % 2 = 1
     THEN [bytes |-> <<>>, e |-> "hex_err"]
     ELSE [bytes |-> [i \in 1 .. Len(str) \div 2 |->
                        16 * val(str[2 * i - 1]) + val(str[2 * i])],
           e |-> "nil"]

RECURSIVE LastOf(_, _, _)
\* The loop over the parts: the value of the last part with this key, the
\* empty string when there is none.
LastOf(parts, key, empty) ==
  IF parts = <<>> THEN empty
  ELSE IF parts[Len(parts)].key = key THEN parts[Len(parts)].val
  ELSE LastOf(SubSeq(parts, 1, Len(parts) - 1), key, empty)

\* parseMagnetLink: the prefix, the three values (each must be non-empty),
\* the tracker URL unescaped, the info hash decoded from hex.
parseMagnetLink(link) ==
  LET infoHash == LastOf(link.parts, "xt", <<>>)
      filename == LastOf(link.parts, "dn", <<>>)
      trackerURL == LastOf(link.parts, "tr", "")
      dec == DecodeString(infoHash)
      res(h, f, t, e) ==
        [done |-> TRUE, infoHash |-> h, filename |-> f, trackerURL |-> t, e |-> e]
  IN CASE ~link.prefix -> res(<<>>, <<>>, "", "invalid_magnet_link")
       [] infoHash = <<>> \/ filename = <<>> \/ trackerURL = "" ->
            res(infoHash, filename, trackerURL, "invalid_magnet_link")
       [] trackerURL = "badescape" -> res(infoHash, filename, "", "unescape_err")
       [] dec.e # "nil" -> res(infoHash, filename, trackerURL, "decode_err")
       [] OTHER -> res(dec.bytes, filename, trackerURL, "nil")

(* ------------------------------------------------------------- parsePeers *)
\* Go's conversions to int16 and uint16, and int16 addition and shift:
\* two's complement, wrapping.
Int16(x) == ((x + 32768) % 65536) - 32768
Uint16(x) == x % 65536

\* Line 54 with the int16 result taken as the port, without uint16().
PortOf_Signed(b4, b5) == Int16(Int16(Int16(b4) * 256) + Int16(b5))

\* Lines 54-56: port := int16(b4)<<8 + int16(b5), stored as uint16(port).
PortOf(b4, b5) == Uint16(Int16(Int16(Int16(b4) * 256) + Int16(b5)))

\* fmt.Sprintf("%d.%d.%d.%d", ...) of four bytes.
Dotted(ip) ==
  Decimal(ip[1]) \o <<46>> \o Decimal(ip[2]) \o <<46>> \o Decimal(ip[3])
    \o <<46>> \o Decimal(ip[4])

\* parsePeers: one Peer per 6 bytes; indexing past the end of a string
\* whose length is not a multiple of 6 panics.
parsePeers(peersInfo) ==
  IF Len(peersInfo) % 6 # 0
  THEN [done |-> TRUE, peers |-> <<>>, panicked |-> TRUE]
  ELSE [done |-> TRUE, panicked |-> FALSE,
        peers |-> [k \in 1 .. Len(peersInfo) \div 6 |->
                     LET i == 6 * (k - 1)
                     IN [ip |-> Dotted(SubSeq(peersInfo, i + 1, i + 4)),
                         port |-> PortOf(peersInfo[i + 5], peersInfo[i + 6])]]]

RECURSIVE encodeCompact(_)
\* The tracker's compact form of a peer list: 4 address bytes and the port,
\* high byte first.
encodeCompact(ps) ==
  IF ps = <<>> THEN <<>>
  ELSE Head(ps).ip \o <<Head(ps).port \div 256, Head(ps).port % 256>>
         \o encodeCompact(Tail(ps))

\* The peer lists tried: one peer with every port, and short lists of peers
\* with ports around the byte and sign borders.
PeerLists ==
  {<<[ip |-> <<10, 0, 255, 1>>, port |-> p]>> : p \in 0 .. 65535}
  \cup SeqsUpTo([ip : {<<0, 0, 0, 0>>, <<192, 168, 1, 128>>},
                 port : {0, 255, 256, 32767, 32768, 65535}], MaxPeerList)

InitParsePeers ==
  /\ fn = "parsePeers"
  /\ \E ps \in PeerLists : arg = [peers |-> ps]
  /\ out = [done |-> FALSE]
  /\ SchedIdle /\ WaitIdle /\ DlIdle /\ FirstRun

callParsePeers ==
  /\ fn = "parsePeers"
  /\ ~out.done
  /\ out' = parsePeers(encodeCompact(arg.peers))
  /\ UNCHANGED <<fn, arg>>
  /\ UNCHANGED <<schedVars, waitVars, dlVars, runVars>>

SpecParsePeers == InitParsePeers /\ [][callParsePeers]_vars

(* ------------------------------------------------- single function calls *)
\* The functions called, with the arguments tried.
Calls ==
  [fn : {"NewPeerConnWithExtension"}, arg : ExtPeers]
  \cup [fn : {"RequestMetadata"}, arg : MetaPeers]
  \cup [fn : {"NewMetaInfoFromMap"}, arg : InfoMaps]
  \cup [fn : {"decodeInt"}, arg : [in : IntInputs]]
  \cup [fn : {"decodeByteString"}, arg : [n : -1 .. MaxStr, m : 0 .. MaxStr + 2]]
  \cup [fn : {"Sha1Sum"}, arg : [info : InfoDicts]]
  \cup [fn : {"parseMagnetLink"}, arg : MagnetLinks]
  \cup [fn : {"ExtensionID"}, arg : [peer : ConnectingPeers, withExt : BOOLEAN]]
  \cup [fn : {"handshake"}, arg : HandshakeReplies]
  \cup [fn : {"recvPiece"}, arg : RecvPieceArgs]
  \cup [fn : {"newTorrentSockets"}, arg : [peers : SeqsUpTo(PeerKinds, MaxPeers)]]

CallInit ==
  /\ \E c \in Calls : fn = c.fn /\ arg = c.arg
  /\ out = [done |-> FALSE]

callNewPeerConnWithExtension ==
  /\ fn = "NewPeerConnWithExtension"
  /\ ~out.done
  /\ out' = NewPeerConnWithExtension(arg)
  /\ UNCHANGED <<fn, arg>>
  /\ UNCHANGED <<schedVars, waitVars, dlVars, runVars>>

callRequestMetadata ==
  /\ fn = "RequestMetadata"
  /\ ~out.done
  /\ out' = RequestMetadata(arg)
  /\ UNCHANGED <<fn, arg>>
  /\ UNCHANGED <<schedVars, waitVars, dlVars, runVars>>

callDecodeInt ==
  /\ fn = "decodeInt"
  /\ ~out.done
  /\ out' = decodeInt(NewReader(arg.in))
  /\ UNCHANGED <<fn, arg>>
  /\ UNCHANGED <<schedVars, waitVars, dlVars, runVars>>

callDecodeByteString ==
  /\ fn = "decodeByteString"
  /\ ~out.done
  /\ out' = decodeByteString(NewReader(StrInput(arg.n, arg.m)))
  /\ UNCHANGED <<fn, arg>>
  /\ UNCHANGED <<schedVars, waitVars, dlVars, runVars>>

callNewMetaInfoFromMap ==
  /\ fn = "NewMetaInfoFromMap"
  /\ ~out.done
  /\ out' \in NewMetaInfoFromMap(arg)
  /\ UNCHANGED <<fn, arg>>
  /\ UNCHANGED <<schedVars, waitVars, dlVars, runVars>>

callSha1Sum ==
  /\ fn = "Sha1Sum"
  /\ ~out.done
  /\ out' = [done |-> TRUE, hash |-> Sha1Sum(MetaInfoOf(arg.info))]
  /\ UNCHANGED <<fn, arg>>
  /\ UNCHANGED <<schedVars, waitVars, dlVars, runVars>>

callParseMagnetLink ==
  /\ fn = "parseMagnetLink"
  /\ ~out.done
  /\ out' = parseMagnetLink(arg)
  /\ UNCHANGED <<fn, arg>>
  /\ UNCHANGED <<schedVars, waitVars, dlVars, runVars>>

callExtensionID ==
  /\ fn = "ExtensionID"
  /\ ~out.done
  /\ out' = ConnectThenExtensionID(arg.peer, arg.withExt)
  /\ UNCHANGED <<fn, arg>>
  /\ UNCHANGED <<schedVars, waitVars, dlVars, runVars>>

callHandshake ==
  /\ fn = "handshake"
  /\ ~out.done
  /\ out' = handshakeOn(arg)
  /\ UNCHANGED <<fn, arg>>
  /\ UNCHANGED <<schedVars, waitVars, dlVars, runVars>>

callRecvPiece ==
  /\ fn = "recvPiece"
  /\ ~out.done
  /\ out' = recvPiece(arg.len, arg.msg)
  /\ UNCHANGED <<fn, arg>>
  /\ UNCHANGED <<schedVars, waitVars, dlVars, runVars>>

callNewTorrentSockets ==
  /\ fn = "newTorrentSockets"
  /\ ~out.done
  /\ out' = newTorrentSockets(arg.peers)
  /\ UNCHANGED <<fn, arg>>
  /\ UNCHANGED <<schedVars, waitVars, dlVars, runVars>>

CallNext ==
  \/ callNewPeerConnWithExtension
  \/ callRequestMetadata
  \/ callDecodeInt
  \/ callDecodeByteString
  \/ callNewMetaInfoFromMap
  \/ callSha1Sum
  \/ callParseMagnetLink
  \/ callExtensionID
  \/ callHandshake
  \/ callRecvPiece
  \/ callNewTorrentSockets

InitCalls == CallInit /\ SchedIdle /\ WaitIdle /\ DlIdle /\ FirstRun

SpecCalls == InitCalls /\ [][CallNext]_vars

(* ------------------------------------------------------------ properties *)
WholeFile == File([i \in 1 .. npieces |-> Content(i - 1)])

AllVerified ==
  \A k \in PieceIdx : pieces[k] /\ Sha1(pieceData[k]) = PieceHashes(npieces)[k]

\* C1: whenever DownloadFile returns success with the output written, every
\* slot of the assembled-pieces array holds bytes whose SHA-1 is the piece's
\* hash, and these are the bytes written. Violated: the workers share err, so a worker whose DownloadPiece
\* failed can read the nil another worker has just assigned and store its
\* piece.
C1_VerifiedOutput ==
  (result = "ok" /\ outFile.created) =>
    /\ AllVerified
    /\ outFile = WholeFile

\* C2: once a worker has posted a fatal error, DownloadFile does not write
\* the output file and returns nothing but a posted error. Violated: the
\* select takes waitCh when both channels are ready.
C2_FatalErrorReturned ==
  fatalPosted => /\ outFile = NoFile
                 /\ result \in {"none", "fatal_pre", "fatal_dl"}

C4_FailFast ==
  (mainpc \notin {"connect", "newtorrent_failed"} /\ peerConns = <<>>) =>
    \/ mainpc = "returned" /\ result # "ok"
    \/ ENABLED Next

\* C5 as stated: NewTorrent fails only when no peer of the list connects.
\* Violated: connectPeers returns the error of the first peer that fails.
C5_OtherPeersSuffice ==
  mainpc = "newtorrent_failed" =>
    \A i \in DOMAIN peers : NewPeerConn(peers[i]) # "ok"

\* C5, amended: a failed dial or handshake of any peer makes connectPeers
\* and NewTorrent return an error, also when other peers connect; NewTorrent
\* succeeds only with a connection to every peer of the list.
C5_AnyFailureFatal ==
  /\ mainpc \notin {"connect", "newtorrent_failed"} =>
       /\ Len(peerConns) = Len(peers)
       /\ \A i \in DOMAIN peers : NewPeerConn(peers[i]) = "ok"
  /\ mainpc = "newtorrent_failed" =>
       /\ Len(peerConns) < Len(peers)
       /\ NewPeerConn(peers[Len(peerConns) + 1]) # "ok"

\* NewTorrent has failed although a peer had connected.
C5_Witness == mainpc = "newtorrent_failed" /\ Len(peerConns) >= 1

\* C6: in the drop scenario no fatal error is posted and DownloadFile, when
\* it returns and has written the file, returns success with every piece
\* verified. Violated: the worker of the dropped connection keeps taking
\* the piece it fails on until its retries are used up.
C6_DropRecovered ==
  /\ ~fatalPosted
  /\ \A w \in Workers : wpc[w] # "post_dl"
  /\ result \in {"none", "ok", "write_err"}

\* C7: with at least one connection, only good peers and a writable output
\* file, under weak fairness DownloadFile eventually returns success; no
\* piece is ever retried; and on return every piece is verified and the
\* whole file is written.
C7_GoodPeersFinish ==
  /\ <>(mainpc = "returned" /\ result = "ok")
  /\ [](\A k \in PieceIdx : retries[k] = 0 /\ attempts[k] <= 1)
  /\ [](mainpc = "returned" => (result = "ok" /\ AllVerified /\ outFile = WholeFile))

\* DownloadFile has returned success with the whole file written.
C7_Witness ==
  /\ mainpc = "returned"
  /\ result = "ok"
  /\ Len(peerConns) >= 1
  /\ outFile = WholeFile

\* C8: once the deadline of a waitForPeerMsg call has passed, the call can
\* go on to its return without anything more from the peer. Violated: the
\* goroutine is blocked in readPeerMsg and looks at ctx.Done() only between
\* two reads, and the caller waits for the goroutine.
C8_Timeout ==
  (callerpc = "wait" /\ ctxDone) =>
    ENABLED (readerSelect \/ readerRead \/ waitForPeerMsg)

\* C9 as stated: no sixth download attempt of a PieceWork is started.
\* Violated: retries counts the re-enqueues, so the sixth attempt starts
\* with retries = 5.
C9_FiveAttempts == \A k \in PieceIdx : attempts[k] <= PieceDownloadRetries

\* C9, amended: a PieceWork is attempted at most PieceDownloadRetries + 1
\* = 6 times (the first attempt and five retries); a worker goes on to post
\* the download error only from the sixth attempt, and no seventh starts.
C9_SixAttempts ==
  /\ \A k \in PieceIdx : attempts[k] <= PieceDownloadRetries + 1
  /\ \A w \in Workers :
       wpc[w] = "post_dl" =>
         /\ attempts[holding[w]] = PieceDownloadRetries + 1
         /\ retries[holding[w]] = PieceDownloadRetries

\* A sixth attempt has started.
C9_Witness ==
  \E w \in Workers :
    /\ wpc[w] = "download"
    /\ attempts[holding[w]] = PieceDownloadRetries + 1

\* C10: the retry counter stays within 0 .. PieceDownloadRetries; a worker
\* back from a failed attempt increments it by one and re-enqueues the item
\* when it is below PieceDownloadRetries, and otherwise goes to post the
\* fatal error without re-enqueueing; an item is stored only with a counter
\* within the range. Violated: the worker tests the shared err, not the
\* result of its own call.
C10_RetryCounter ==
  [][\A w \in Workers :
       (wpc[w] = "check" /\ wpc'[w] # "check") =>
         LET k == holding[w]
             queued == {workQueue'[i] : i \in DOMAIN workQueue'}
         IN /\ retries'[k] \in 0 .. PieceDownloadRetries
            /\ (lastRes[w] = "derr" /\ retries[k] < PieceDownloadRetries) =>
                 retries'[k] = retries[k] + 1 /\ k \in queued
            /\ (lastRes[w] = "derr" /\ retries[k] = PieceDownloadRetries) =>
                 wpc'[w] = "post_dl" /\ k \notin queued /\ ~pieces'[k]
            /\ (pieces'[k] /\ ~pieces[k]) => retries[k] <= PieceDownloadRetries]_vars

\* The requests sent so far are contiguous from offset 0: each begins where
\* the one before it ends, is BlockSize long unless it ends the piece, and
\* is not empty.
SentContiguous ==
  \A p \in 1 .. Len(dlSent) :
    /\ dlSent[p].index = dlIdx
    /\ dlSent[p].begin = (IF p = 1 THEN 0 ELSE dlSent[p - 1].begin + dlSent[p - 1].length)
    /\ dlSent[p].begin = (p - 1) * BlockSize
    /\ dlSent[p].length >= 1
    /\ dlSent[p].begin + dlSent[p].length <= dlLen
    /\ dlSent[p].length = BlockSize \/ dlSent[p].begin + dlSent[p].length = dlLen

\* C11: the requests of one DownloadPiece attempt begin at 0, 16384, ...,
\* are 16384 long except the last, which ends the piece; they are disjoint,
\* each sent once, and once every wave is through they cover [0, L).
C11_RequestsCoverPiece ==
  /\ SentContiguous
  /\ (dlpc = "verify" \/ (dlpc = "done" /\ dlErr \in {"nil", "derr"})) =>
       /\ dlSent # <<>>
       /\ dlSent[Len(dlSent)].begin + dlSent[Len(dlSent)].length = dlLen
       /\ Len(dlSent) = blockCount(dlLen)

\* A call that went through three waves, the last of one block shorter
\* than BlockSize.
C11_Witness ==
  /\ dlpc = "done"
  /\ dlErr = "nil"
  /\ Len(dlSent) = 2 * PipelineDepth + 1
  /\ dlLen % BlockSize # 0

RECURSIVE SumOfPieces(_, _, _)
SumOfPieces(length, pieceLen, n) ==
  IF n = 0 THEN 0
  ELSE SumOfPieces(length, pieceLen, n - 1) + pieceLength(length, pieceLen, n - 1)

\* C12: DownloadPiece takes piece_length for every piece but the last and
\* what is left of the file for the last, which is length mod piece_length
\* or piece_length when that is zero; the sizes of the pieces sum to the
\* length of the file.
C12_PieceSizes ==
  (dlpc \notin {"none", "start"} /\ dlErr # "out_of_bounds") =>
    /\ dlLen >= 1
    /\ dlLen <= mfPieceLength
    /\ dlIdx * mfPieceLength + dlLen <= mfLength
    /\ dlLen = mfPieceLength \/ dlIdx * mfPieceLength + dlLen = mfLength
    /\ SumOfPieces(mfLength, mfPieceLength, pieceCount(mfLength, mfPieceLength))
         = mfLength

\* The last piece of a file that its piece length divides evenly, and of one
\* it does not.
C12_Witness ==
  /\ dlpc = "send"
  /\ dlIdx = pieceCount(mfLength, mfPieceLength) - 1
  /\ dlIdx >= 1
  /\ mfLength % mfPieceLength = 0

C12_WitnessRemainder ==
  /\ dlpc = "send"
  /\ dlIdx = pieceCount(mfLength, mfPieceLength) - 1
  /\ dlIdx >= 1
  /\ mfLength % mfPieceLength # 0

\* The peer's extension handshake has no integer m.ut_metadata.
LacksUtMetadata(data) == data.kind # "dict" \/ data.m # "map" \/ data.ut # "int"

\* C13: NewPeerConnWithExtension returns an error and no connection when
\* the peer's handshake does not set 0x10 in reserved byte 5 and when its
\* extension handshake lacks m.ut_metadata; a connection it returns has the
\* remote ut_metadata id set; it never panics. Violated: without the bit the
\* handshake returns nil and the connection is returned with a nil
\* extensionID, and a payload without a dictionary m panics.
C13_ExtensionRequired ==
  (fn = "NewPeerConnWithExtension" /\ out.done /\ arg.dial /\ arg.hs = "ok") =>
    /\ ~out.panicked
    /\ (~arg.extBit \/ LacksUtMetadata(arg.data)) => (out.e # "nil" /\ ~out.conn)
    /\ out.conn => out.extSet

\* C14: RequestMetadata returns a metadata piece only for a reply with
\* msg_type = 1 that carries a trailing info dictionary. Violated: the
\* payload of the first id-20 message is returned whatever its msg_type.
C14_OnlyDataReply ==
  (fn = "RequestMetadata" /\ out.done /\ out.e = "nil") =>
    /\ arg.data.msgType = 1
    /\ arg.data.trailing = "dict"

\* C15: two runs on the same torrent against peers with fixed behaviour that
\* both return success leave the same bytes in the output file. Violated:
\* a worker that reads the shared err after another worker's assignment
\* stores a piece that failed verification, so one successful run writes the
\* corrupt peer's block and another the right one.
C15_DeterministicOutput ==
  (firstRun.done /\ firstRun.result = "ok" /\ mainpc = "returned" /\ result = "ok")
    => outFile = firstRun.outFile

\* The keys of a map in strictly ascending byte order.
Ascending(q) == \A i \in 1 .. Len(q) - 1 : StrLess(q[i], q[i + 1])

AscendingKeys(d) ==
  CHOOSE q \in [1 .. Cardinality(DOMAIN d) -> DOMAIN d] :
    Ascending(q) /\ \A k \in DOMAIN d : \E i \in DOMAIN q : q[i] = k

RECURSIVE Canonical(_), CanonicalAll(_), CanonicalItems(_, _)
\* The bencoding in which every dictionary lists its keys in strictly
\* ascending byte order.
Canonical(v) ==
  CASE v[1] = "s" -> Decimal(Len(v[2])) \o <<58>> \o v[2]
    [] v[1] = "i" -> <<105>> \o Decimal(v[2]) \o <<101>>
    [] v[1] = "l" -> <<108>> \o CanonicalAll(v[2]) \o <<101>>
    [] v[1] = "d" -> <<100>> \o CanonicalItems(v[2], AscendingKeys(v[2])) \o <<101>>

CanonicalAll(q) ==
  IF q = <<>> THEN <<>> ELSE Canonical(Head(q)) \o CanonicalAll(Tail(q))

CanonicalItems(d, q) ==
  IF q = <<>> THEN <<>>
  ELSE Decimal(Len(Head(q))) \o <<58>> \o Head(q) \o Canonical(d[Head(q)])
         \o CanonicalItems(d, Tail(q))

\* C16: the encoder emits the keys of every dictionary, at every depth, in
\* strictly ascending byte order whatever order the map hands them out in,
\* and two encodings of the same mapping are the same bytes.
C16_SortedKeys ==
  (fn = "bencodeVal" /\ out.done) =>
    /\ out.first = Canonical(arg.v)
    /\ out.second = out.first

\* An encoded dictionary of at least two keys, one of them holding a
\* dictionary of at least two keys, with the keys handed out in an order
\* that is not ascending.
C16_Witness ==
  /\ fn = "bencodeVal"
  /\ out.done
  /\ Cardinality(DOMAIN arg.v[2]) >= 2
  /\ \E k \in DOMAIN arg.v[2] :
       /\ arg.v[2][k][1] = "d"
       /\ Cardinality(DOMAIN arg.v[2][k][2]) >= 2
  /\ ~Ascending(RangeKeys(arg.v[2], arg.ord))
  /\ ~Ascending(RangeKeys(arg.v[2], Reverse(arg.ord)))

\* The literal of an integer input: the bytes between the leading i and
\* the first e.
Literal(in) ==
  LET stop == CHOOSE i \in 1 .. Len(in) :
                in[i] = 101 /\ \A j \in 1 .. i - 1 : in[j] # 101
  IN SubSeq(in, 2, stop - 1)

\* Digits, more than one, starting with 0, after an optional minus sign.
LeadingZeros(lit) ==
  LET ds == IF lit # <<>> /\ lit[1] = 45 THEN Tail(lit) ELSE lit
  IN /\ Len(ds) > 1
     /\ \A i \in 1 .. Len(ds) : ds[i] \in 48 .. 57
     /\ ds[1] = 48

\* C17: decodeInt returns an error for a literal with leading zeros (i03e)
\* and for i-0e. Violated: strconv.Atoi accepts both.
C17_RejectsLeadingZeros ==
  (/\ fn = "decodeInt"
   /\ out.done
   /\ arg.in # <<>>
   /\ arg.in[1] = 105
   /\ \E i \in 2 .. Len(arg.in) : arg.in[i] = 101
   /\ (LeadingZeros(Literal(arg.in)) \/ Literal(arg.in) = <<45, 48>>))
    => out.e # "nil"

\* C18: decodeByteString on n:data returns the n bytes after the colon and
\* leaves the reader right behind them, and returns an error when fewer
\* than n bytes follow. Violated: for n larger than the reader's buffer the
\* result is the peeked slice of the buffer, shorter than n and overwritten
\* by Discard's fills.
C18_ExactBytes ==
  (fn = "decodeByteString" /\ out.done /\ arg.n >= 0) =>
    IF arg.m >= arg.n
    THEN /\ out.e = "nil"
         /\ out.bytes = SubSeq(StrData(arg.m), 1, arg.n)
         /\ out.rest = SubSeq(StrData(arg.m), arg.n + 1, arg.m)
    ELSE out.e # "nil"

\* C19: NewMetaInfoFromMap returns an error, without a panic, when one of
\* name, pieces, length, piece length is missing or of the wrong kind, and
\* when the length of pieces is not a multiple of 20. Violated: the length
\* of pieces is never checked, and pieceHashes slices past its end.
C19_MalformedRejected ==
  (/\ fn = "NewMetaInfoFromMap"
   /\ out.done
   /\ \/ \E k \in {"name", "pieces", "length", "pieceLength"} : arg[k].kind # "ok"
      \/ arg.pieces.v % HashLen # 0)
    => (~out.panicked /\ out.e # "nil")

\* C20: a MetaInfo constructed without error has as many piece hashes as
\* ceil(length / piece length), the number of pieces DownloadPiece takes as
\* in range. Violated: the three fields are taken as they come.
C20_PieceCountMatches ==
  (fn = "NewMetaInfoFromMap" /\ out.done /\ out.e = "nil") =>
    /\ out.mi.PieceLength > 0
    /\ pieceCount(out.mi.Length, out.mi.PieceLength) = Len(out.mi.PieceHashes)
\* C21: the info-hash of a MetaInfo is the SHA-1 of the canonical bencoding
\* of the whole info dictionary it was built from. Violated: the hash is
\* taken over a dictionary rebuilt from the four kept keys, so any further
\* key of the info dictionary is left out of it.
C21_HashOfWholeInfo ==
  (fn = "Sha1Sum" /\ out.done) => out.hash = Sha1(Canonical(<<"d", arg.info>>))
\* C22: parseMagnetLink succeeds only for a link with an xt of exactly 40
\* hex digits after urn:btih:, a dn and a tr, and then yields an info hash
\* of 20 bytes. Violated: any non-empty even number of hex digits is
\* accepted.
C22_FortyHexDigits ==
  (fn = "parseMagnetLink" /\ out.done /\ out.e = "nil") =>
    /\ Len(out.infoHash) = HashLen
    /\ \E i \in DOMAIN arg.parts :
         arg.parts[i].key = "xt" /\ Len(arg.parts[i].val) = 2 * HashLen
    /\ \E i \in DOMAIN arg.parts : arg.parts[i].key = "dn"
    /\ \E i \in DOMAIN arg.parts : arg.parts[i].key = "tr"
\* C23: parsePeers of the compact encoding of a peer list returns the
\* list: the same addresses, and for each peer the port 256*b4 + b5, also
\* where the int16 arithmetic wraps (b4 >= 128).
C23_CompactRoundTrip ==
  (fn = "parsePeers" /\ out.done) =>
    /\ ~out.panicked
    /\ Len(out.peers) = Len(arg.peers)
    /\ \A i \in DOMAIN arg.peers :
         /\ out.peers[i].ip = Dotted(arg.peers[i].ip)
         /\ out.peers[i].port = arg.peers[i].port

\* A list of two peers parsed, one with a port whose high byte is 128 or
\* more.
C23_Witness ==
  /\ fn = "parsePeers"
  /\ out.done
  /\ Len(out.peers) = 2
  /\ arg.peers[2].port >= 32768
  /\ arg.peers[1].port = 255
C25_WavesDrained ==
  /\ Cardinality(dlPending) <= PipelineDepth
  /\ dlpc = "send" => dlPending = {dlI + j : j \in 0 .. dlJ - 1}
  /\ dlpc = "recv" =>
       Cardinality(dlPending) = effectivePipeline(dlI, blockCount(dlLen)) - dlJ

\* The third wave of a piece of eleven blocks is being sent.
C25_Witness ==
  /\ dlpc = "send"
  /\ dlI = 2 * PipelineDepth
  /\ Len(dlSent) = 2 * PipelineDepth

\* C28: every block received sits at its declared begin offset whatever
\* the order of the replies, so the buffer that goes to verification is
\* the same for every order.
C28_OrderIndependent ==
  /\ \A k \in DOMAIN dlBuf :
       dlBuf[k] # NilBlock =>
         /\ dlBuf[k].begin = k * BlockSize
         /\ dlBuf[k].length = blockReqs(dlIdx, dlLen)[k].length
  /\ dlpc = "verify" => \A k \in DOMAIN dlBuf : dlBuf[k] # NilBlock

\* The second wave answered last request first: its last block is in the
\* buffer, its first is not, and the blocks of the first wave are.
C28_Witness ==
  /\ dlpc = "recv"
  /\ dlI = PipelineDepth
  /\ dlJ = 1
  /\ 2 * PipelineDepth - 1 \in DOMAIN dlBuf
  /\ dlBuf[2 * PipelineDepth - 1] # NilBlock
  /\ dlBuf[PipelineDepth] = NilBlock
  /\ \A k \in 0 .. PipelineDepth - 1 : dlBuf[k] # NilBlock
\* C26: the goroutine a waitForPeerMsg call starts is the only reader of
\* the connection while the call runs, and it has left its loop (its last
\* readPeerMsg is over, nothing was sent on a closed channel) when the call
\* returns, whether with a message, an error or a timeout.
C26_ReaderDoneAtReturn ==
  /\ callerpc = "returned" => readerpc = "done"
  /\ ~panicked

\* The call timed out while frames the goroutine never read are waiting
\* for the next call.
C26_Witness ==
  /\ callerpc = "returned"
  /\ ret.e = "timeout"
  /\ wire # <<>>
\* C27: a scheduler worker calls PreDownload once, before anything else;
\* a worker is in its loop, holds a PieceWork or is in DownloadPiece, where
\* requests are sent, only after interested went out and an unchoke came in
\* on its connection; a worker whose PreDownload failed goes from there to
\* its send on errCh and never holds a PieceWork.
C27_PreDownloadFirst ==
  \A w \in Workers :
    /\ connLog[w].pre = (IF wpc[w] = "start" THEN 0 ELSE 1)
    /\ connLog[w].unchoke => connLog[w].interested
    /\ wpc[w] \in {"loop", "download", "check", "blocked_send", "post_dl"}
         => connLog[w].unchoke
    /\ holding[w] # NoPiece => connLog[w].unchoke
    /\ wpc[w] = "post_pre" => ~connLog[w].unchoke

\* One worker is about to report that its PreDownload failed on the wait
\* for the unchoke, while another is in DownloadPiece after its own
\* PreDownload.
C27_Witness ==
  \E w, v \in Workers :
    /\ wpc[w] = "post_pre"
    /\ connLog[w].interested
    /\ wpc[v] = "download"
    /\ connLog[v].unchoke

\* C29: no two workers hold a PieceWork of the same index, a slot of the
\* pieces array is written at most once in a run, and once it is written
\* its index is neither queued nor held, so that only the worker holding
\* the PieceWork it dequeued writes the slot.
C29_SingleWriter ==
  /\ \A w, v \in Workers :
       (w # v /\ holding[w] # NoPiece) => holding[w] # holding[v]
  /\ \A i, j \in DOMAIN workQueue : i # j => workQueue[i] # workQueue[j]
  /\ \A w \in Workers : \A i \in DOMAIN workQueue : workQueue[i] # holding[w]
  /\ \A k \in DOMAIN stores :
       /\ stores[k] = (IF pieces[k] THEN 1 ELSE 0)
       /\ pieces[k] =>
            /\ \A i \in DOMAIN workQueue : workQueue[i] # k
            /\ \A w \in Workers : holding[w] # k

\* A piece that was downloaded more than once is stored, while a worker
\* holds another piece.
C29_Witness ==
  \E k \in DOMAIN stores :
    /\ stores[k] = 1
    /\ attempts[k] >= 2
    /\ \E w \in Workers : holding[w] # NoPiece
\* The PieceWork items a worker has taken from the queue and neither put
\* back nor stored; a worker that gave up on its item keeps it.
Held == {w \in Workers : holding[w] # NoPiece}

Completed == {k \in PieceIdx : pieces[k]}

\* C30: from the initial fill on, the items in the work queue, the items
\* held by workers and the completed items add up to the piece count, so
\* the queue (capacity: the piece count) is never over its capacity and no
\* worker blocks in its re-enqueue.
C30_ItemsConserved ==
  /\ Len(workQueue) <= npieces
  /\ \A w \in Workers : wpc[w] # "blocked_send"
  /\ mainpc \notin {"connect", "newtorrent_failed", "created"} =>
       Len(workQueue) + Cardinality(Held) + Cardinality(Completed) = npieces

\* A piece that was put back for a retry waits in the queue while a worker
\* holds the other piece.
C30_Witness ==
  /\ Len(workQueue) = 1
  /\ retries[workQueue[1]] >= 1
  /\ Cardinality(Held) = 1
  /\ npieces = 2
\* C31: on a connection a constructor returned, ExtensionID returns
\* (id, true) when the extension handshake recorded the peer's ut_metadata
\* id, and (some value, false), without a panic, when none was recorded.
\* Violated: *pc.extensionID is evaluated on the nil pointer.
C31_ExtensionIDTotal ==
  (fn = "ExtensionID" /\ out.done /\ out.conn) =>
    /\ ~out.panicked
    /\ out.ok = out.recorded
\* C32: the handshake fails when the reply does not start with the byte 19
\* and "BitTorrent protocol"; no connection is handshaked on such a reply.
\* Violated: Unmarshal checks the length of the reply only.
C32_ProtocolStringChecked ==
  (fn = "handshake" /\ out.done /\ (arg.pstrlen # 19 \/ ~arg.pstr)) =>
    /\ out.e # "nil"
    /\ ~out.handshaked
\* C33: a worker back from DownloadPiece stores the piece and decrements
\* the counter only when its own call returned nil, and re-enqueues the
\* piece or goes to post a fatal error only when its own call returned an
\* error. Violated: the test reads the err all workers assign.
C33_OwnResultDecides ==
  [][\A w \in Workers :
       (wpc[w] = "check" /\ wpc'[w] # "check") =>
         /\ lastRes[w] # "nil" => (pieces' = pieces /\ wgCount' = wgCount)
         /\ lastRes[w] = "nil" =>
              (workQueue' = workQueue /\ retries' = retries /\ wpc'[w] # "post_dl")]_vars
\* C34: no worker sends on errCh after close(errCh): no step of a worker
\* that stands at its send on errCh, with the channel closed, is a panic.
\* Violated: the close does not wait for the workers.
C34_NoSendOnClosedErrCh ==
  [][\A w \in Workers :
       (wpc[w] \in {"post_pre", "post_dl"} /\ errClosed /\ wpc' = wpc
          /\ retries' = retries /\ wgCount' = wgCount)
         => ~(panicked' /\ ~panicked)]_vars
\* C35: when the work queue is closed every slot has been stored, the queue
\* is empty and no worker holds a PieceWork or is anywhere between its
\* dequeue and its re-enqueue, so that no worker sends on the closed queue;
\* a worker in its dequeue loop after the close can take its step, and the
\* step leaves the loop.
C35_CloseAfterAll ==
  wqClosed =>
    /\ \A k \in PieceIdx : pieces[k]
    /\ workQueue = <<>>
    /\ \A w \in Workers :
         /\ holding[w] = NoPiece
         /\ wpc[w] \in {"start", "post_pre", "hung", "loop", "done"}
         /\ (wpc[w] = "loop" /\ running) => ENABLED workerDequeue(w)

\* The queue is closed, one worker has left its loop and the other, which
\* failed on a piece earlier, is still in it.
C35_Witness ==
  /\ wqClosed
  /\ \E w, v \in Workers : wpc[w] = "done" /\ connLog[w].unchoke /\ wpc[v] = "loop"
  /\ \E k \in PieceIdx : retries[k] > 0
C37_PostNeverBlocks ==
  \A w \in Workers :
    (wpc[w] \in {"post_pre", "post_dl"} /\ mainpc # "select" /\ ~errClosed)
      => Len(errCh) < npieces
\* C38: a block DownloadPiece copies into the buffer answers a request of
\* the current wave: the index is the piece being downloaded, begin and
\* length are those of a request of the wave. Violated: whatever piece
\* message comes next is copied, a late reply to an earlier attempt
\* included.
C38_OnlyCurrentReplies ==
  (fn = "recvPiece" /\ out.done /\ out.e = "nil" /\ ~out.panicked /\ out.n > 0) =>
    /\ arg.msg.index = arg.idx
    /\ \E req \in Wave(arg.idx, arg.len, arg.i) :
         req.begin = arg.msg.begin /\ req.length = arg.msg.blockLen

\* C39: whatever begin and block length a piece message declares, the pass
\* does not panic and writes inside the buffer only; a block that starts or
\* ends beyond the piece gives an error or is ignored. Violated: a begin
\* beyond the piece length panics, a block that ends beyond it is cut.
C39_CopyInBounds ==
  (fn = "recvPiece" /\ out.done) =>
    /\ ~out.panicked
    /\ out.begin + out.n <= arg.len
    /\ (~arg.msg.short /\ arg.msg.begin + arg.msg.blockLen > arg.len) =>
         (out.e # "nil" \/ out.n = 0)
\* C40: every socket dialled by NewTorrent is, once it has returned, closed
\* or owned by the Torrent given to the caller: a socket whose handshake
\* failed is closed, and the connections opened before a failing peer are
\* closed.
C40_SocketsClosedOrOwned ==
  (fn = "newTorrentSockets" /\ out.done) =>
    \A s \in out.dialled : s \in out.closed \/ s \in out.owned
====
